---- MODULE Spec2Model ----
(***************************************************************************)
(* A model of the trading engine's order manager (internal/order),        *)
(* risk manager and kill switch (internal/risk) and execution engine      *)
(* (internal/execution).  Every goroutine is a process of Procs; every    *)
(* critical section and every venue call of the Go code is one step.      *)
(* Decimal quantities are integers in the smallest unit the model uses.   *)
(***************************************************************************)
EXTENDS Integers, Sequences, FiniteSets, TLC

(***************************************************************************)
(* Bounds of the model.                                                    *)
(***************************************************************************)
NumProcs == 2          \* goroutines that may run concurrently
MaxOrders == 3         \* internal order ids handed out by NewOrderID
MaxSize == 2           \* largest requested order size

Procs == 1..NumProcs
OrderIds == 1..MaxOrders
NoId == 0

(***************************************************************************)
(* domain.OrderStatus and OrderStatus.IsTerminal.                          *)
(***************************************************************************)
OrderStatusPendingNew == "PENDING_NEW"
OrderStatusSubmitted == "SUBMITTED"
OrderStatusAcknowledged == "ACKNOWLEDGED"
OrderStatusPartialFill == "PARTIAL_FILL"
OrderStatusFilled == "FILLED"
OrderStatusCancelled == "CANCELLED"
OrderStatusRejected == "REJECTED"
OrderStatusSubmitFailed == "SUBMIT_FAILED"

IsTerminal(s) ==
    \/ s = OrderStatusFilled
    \/ s = OrderStatusCancelled
    \/ s = OrderStatusRejected
    \/ s = OrderStatusSubmitFailed

\* The statuses a venue acknowledgement carries: the REST adapter answers
\* ACKNOWLEDGED, the fill simulator any of the four.
AckStatuses ==
    {OrderStatusAcknowledged, OrderStatusPartialFill, OrderStatusFilled,
     OrderStatusRejected}

(***************************************************************************)
(* Idempotency keys.  The execution engine formats "<signal>-leg-<i>",    *)
(* modelled as the pair it is formatted from; a direct caller may pass    *)
(* any key, the empty string (the pair of zeros) included.                 *)
(***************************************************************************)
EmptyKey == <<0, 0>>
DirectKey == <<0, 1>>
ApiKeys == {EmptyKey, DirectKey}

VARIABLES
    orders,          \* Manager.orders: internal id -> order, or NoOrder
    idempotencyMap,  \* Manager.idempotencyMap: key -> internal id
    nextOrderId,     \* the next id order.NewOrderID hands out
    placeCalls,      \* history: venue PlaceOrder calls, per idempotency key
    proc,            \* per goroutine: program counter and locals
    cycle            \* per signal: the risk verdict and the reports published

NoOrder == [status |-> "NONE"]

(***************************************************************************)
(* risk.Manager, risk.KillSwitch, risk.PnLTracker and the freshness state *)
(* of marketdata.Service that ValidateSignal reads.                        *)
(***************************************************************************)
VARIABLES
    mode,              \* RiskState.Mode
    positions,         \* RiskState.Positions: (venue, asset) -> signed size
    venueNotionals,    \* RiskState.VenueNotionals
    openOrderCounts,   \* RiskState.OpenOrderCounts
    pnl,               \* PnLTracker: realized, unrealized, and whether UTC
                       \* midnight has passed since lastReset
    killSwitch,        \* KillSwitch.active, KillSwitch.reason
    ksFile,            \* the kill-switch file: absent, corrupt, or a state
    onKillSwitch,      \* whether Manager.onKillSwitch is set
    pendingCallbacks,  \* goroutines started by "go m.onKillSwitch()", not yet run
    mdLastUpdate,      \* Service.lastUpdate against the block threshold
    mdAge,             \* time.Since(Service.lastUpdate[key]), NoAge if none
    lastValidation,    \* the latest ValidateSignal call on the present state
    restarts,          \* history: process restarts so far
    orderStateSubs,    \* EventBus.orderStateSubs: one channel per subscriber
    applied,           \* history: per order, the transitions applied to it
    orderBookSubs,     \* EventBus.orderBookSubs: one channel per subscriber
    books,             \* Service.books: per key, the stored book and its arrays
    held               \* the snapshot a caller of GetOrderBook holds, if any

(***************************************************************************)
(* The components beside the trading path: the gateway's rate limiter.     *)
(***************************************************************************)
VARIABLES
    bucket,            \* TokenBucket: tokens, and the time since lastRefill
    tried,             \* the latest direct TryAcquire call and what it returned
    acquirers,         \* per caller of TokenBucket.Acquire: position and locals
    simRun,            \* fill simulators, their inputs and their results
    recon,             \* the portfolio the Reconciler compares and corrects
    writer,            \* persistence.AsyncWriter: channels, senders, outcome
    published,         \* the strategy modules' books and published signals
    reportBus          \* EventBus.execReportSubs: the channels, open or closed

omVars == <<orders, idempotencyMap, nextOrderId, placeCalls, proc, cycle>>
riskStateVars == <<mode, positions, venueNotionals, openOrderCounts, pnl,
                   killSwitch, ksFile, onKillSwitch, pendingCallbacks>>
riskVars == <<mode, positions, venueNotionals, openOrderCounts, pnl,
              killSwitch, ksFile, onKillSwitch, pendingCallbacks,
              mdLastUpdate, mdAge, lastValidation, restarts>>
osVars == <<orderStateSubs, applied>>
mdVars == <<orderBookSubs, books, held>>
\* reportBus is written by its own actions only: both tuples hold it.
coreVars == <<omVars, riskVars, osVars, mdVars, reportBus>>
bucketVars == <<bucket, tried, acquirers>>
sideVars == <<bucketVars, simRun, recon, writer, published>>
libVars == <<sideVars, reportBus>>
vars == <<orders, idempotencyMap, nextOrderId, placeCalls, proc, cycle, mode, positions, venueNotionals, openOrderCounts,
          pnl, killSwitch, ksFile, onKillSwitch, pendingCallbacks,
          mdLastUpdate, mdAge, lastValidation, restarts,
          orderStateSubs, applied, orderBookSubs, books, held, libVars>>


(***************************************************************************)
(* Goroutine frames.  caller tells where a returning SubmitOrder or       *)
(* CancelOrder continues: "api" (a direct call: the goroutine is done),   *)
(* "engine" (submitWithRetry), "cancelall" (the loop of CancelAllOrders)  *)
(* or "abort" (the loop of abortCycle).                                    *)
(***************************************************************************)
NoResult == [order |-> NoId, err |-> FALSE, dup |-> FALSE]

\* No OrderStateChange waits to be published by the frame.
NoEvent == [id |-> NoId, prev |-> "NONE", new |-> "NONE", transition |-> 0]

IdleProc ==
    [pc |-> "idle", caller |-> "none", id |-> NoId, key |-> EmptyKey,
     venueKnown |-> TRUE, ack |-> "none", todo |-> {}, ret |-> NoResult,
     sig |-> 0, leg |-> 0, attempt |-> 0, placed |-> <<>>, abortAt |-> 0,
     ctxDone |-> FALSE, ev |-> NoEvent]

\* A call returns r to the frame that made it.  A direct caller keeps only
\* the answer to a duplicate request; it drops every other result.
ReturnTo(p, caller, r) ==
    CASE caller = "engine" ->
            [proc[p] EXCEPT !.pc = "swr_result", !.ret = r, !.ev = NoEvent]
      [] caller = "cancelall" ->
            [proc[p] EXCEPT !.pc = "ca_loop", !.id = NoId, !.ev = NoEvent]
      [] caller = "abort" ->
            [proc[p] EXCEPT !.pc = "ab_loop", !.ret = r, !.abortAt = @ + 1,
                            !.ev = NoEvent]
      [] OTHER -> [IdleProc EXCEPT !.ret = IF r.dup THEN r ELSE NoResult]

Returned(p, r) == ReturnTo(p, proc[p].caller, r)

(***************************************************************************)
(* eventbus.EventBus.  A subscriber is a buffered channel: the sequence of *)
(* the events sent to it and not yet received.                             *)
(***************************************************************************)
BufferSize == 2        \* EventBus.bufferSize
MaxSubscribers == 2    \* subscribers of one kind of event

\* A send that makes room by discarding the oldest buffered event.
DeliverDropOldest(subs, e) ==
    [s \in 1..Len(subs) |->
        IF Len(subs[s]) < BufferSize
        THEN Append(subs[s], e)
        ELSE Append(Tail(subs[s]), e)]

\* The loop of every Publish method: a send to each subscriber in turn
\* inside "select { case ch <- e: default: logger.Warn(...) }".
Deliver(subs, e) ==
    [s \in 1..Len(subs) |->
        IF Len(subs[s]) < BufferSize THEN Append(subs[s], e) ELSE subs[s]]

PublishOrderState(change) == orderStateSubs' = Deliver(orderStateSubs, change)

PublishOrderBook(snap) == orderBookSubs' = Deliver(orderBookSubs, snap)

SubscribeOrderState ==
    /\ Len(orderStateSubs) < MaxSubscribers
    /\ orderStateSubs' = Append(orderStateSubs, <<>>)
    /\ UNCHANGED <<omVars, riskVars, applied, mdVars, libVars>>

\* A subscriber takes the next event from its channel.
ReceiveOrderState(s) ==
    /\ orderStateSubs[s] # <<>>
    /\ orderStateSubs' = [orderStateSubs EXCEPT ![s] = Tail(@)]
    /\ UNCHANGED <<omVars, riskVars, applied, mdVars, libVars>>

(***************************************************************************)
(* order.Manager                                                           *)
(***************************************************************************)
Exists(id) == orders[id] # NoOrder

\* The number of the next transition of an order, counted from the first
\* subscription on.
NextTransition(id) ==
    IF orderStateSubs = <<>> THEN applied[id] ELSE applied[id] + 1

\* The OrderStateChange built by publishStateChange(Locked).
StateChange(id, prev, new) ==
    [id |-> id, prev |-> prev, new |-> new, transition |-> NextTransition(id)]

\* The event of Manager.updateStatus, published before the lock is
\* released, whether or not the status differs from the one before.
updateStatusEvent(id, newStatus) ==
    IF Exists(id)
    THEN /\ PublishOrderState(StateChange(id, orders[id].status, newStatus))
         /\ applied' = [applied EXCEPT ![id] = NextTransition(id)]
    ELSE UNCHANGED osVars

\* Manager.updateStatus: the status is overwritten whatever it was.
updateStatus(id, newStatus) ==
    IF Exists(id)
    THEN [orders EXCEPT ![id].status = newStatus]
    ELSE orders

\* SubmitOrder without its duplicate test.
IdempotentMiss(req) == FALSE

\* The duplicate test of SubmitOrder.
IdempotentHit(req) ==
    /\ idempotencyMap[req.key] # NoId
    /\ req.key # EmptyKey

NewOrder(req) ==
    [status |-> OrderStatusPendingNew, size |-> req.size, filled |-> 0,
     venueKnown |-> req.venueKnown]

\* m.orders[id]: the order, or the nil pointer if the table has none.
Lookup(id) == IF Exists(id) THEN id ELSE NoId

\* SubmitOrder, first critical section: the duplicate test, or the new
\* order in PENDING_NEW and its key recorded.
SubmitOrderEnter(p, req, caller) ==
    /\ IF IdempotentHit(req)
       THEN /\ proc' = [proc EXCEPT ![p] =
                   ReturnTo(p, caller, [order |-> Lookup(idempotencyMap[req.key]),
                                        err |-> FALSE, dup |-> TRUE])]
            /\ UNCHANGED <<orders, idempotencyMap, nextOrderId, applied>>
       ELSE /\ orders' = [orders EXCEPT ![req.id] = NewOrder(req)]
            /\ applied' = [applied EXCEPT ![req.id] = NextTransition(req.id)]
            /\ idempotencyMap' =
                   IF req.key # EmptyKey
                   THEN [idempotencyMap EXCEPT ![req.key] = req.id]
                   ELSE idempotencyMap
            /\ nextOrderId' =
                   IF req.id = nextOrderId THEN nextOrderId + 1 ELSE nextOrderId
            /\ proc' = [proc EXCEPT ![p].pc = "so_created", ![p].id = req.id,
                                    ![p].key = req.key,
                                    ![p].venueKnown = req.venueKnown,
                                    ![p].caller = caller,
                                    ![p].ev = StateChange(req.id, "NONE",
                                                  OrderStatusPendingNew)]
    /\ UNCHANGED <<placeCalls, orderStateSubs>>

\* SubmitOrder, after the lock is released: the event of the new order,
\* publishStateChange(order, "", PENDING_NEW).
SubmitOrderCreated(p) ==
    /\ proc[p].pc = "so_created"
    /\ PublishOrderState(proc[p].ev)
    /\ proc' = [proc EXCEPT ![p].pc = "so_gateway", ![p].ev = NoEvent]
    /\ UNCHANGED <<orders, idempotencyMap, nextOrderId, placeCalls, applied>>
    /\ UNCHANGED <<cycle, riskVars, mdVars, libVars>>

\* SubmitOrder, the gateway lookup: SUBMIT_FAILED for an unknown venue,
\* else SUBMITTED.
SubmitOrderGateway(p) ==
    /\ proc[p].pc = "so_gateway"
    /\ IF ~proc[p].venueKnown
       THEN /\ orders' = updateStatus(proc[p].id, OrderStatusSubmitFailed)
            /\ updateStatusEvent(proc[p].id, OrderStatusSubmitFailed)
            /\ proc' = [proc EXCEPT ![p] =
                   Returned(p, [order |-> NoId, err |-> TRUE, dup |-> FALSE])]
       ELSE /\ orders' = updateStatus(proc[p].id, OrderStatusSubmitted)
            /\ updateStatusEvent(proc[p].id, OrderStatusSubmitted)
            /\ proc' = [proc EXCEPT ![p].pc = "so_place"]
    /\ UNCHANGED <<idempotencyMap, nextOrderId, placeCalls>>
    /\ UNCHANGED <<cycle, riskVars, mdVars, libVars>>

\* SubmitOrder, the venue call gw.PlaceOrder: an acknowledgement or an error.
SubmitOrderPlace(p) ==
    /\ proc[p].pc = "so_place"
    /\ placeCalls' = [placeCalls EXCEPT ![proc[p].key] = @ + 1]
    /\ \E out \in AckStatuses \cup {"err"} :
           proc' = [proc EXCEPT ![p].pc = "so_result", ![p].ack = out]
    /\ UNCHANGED <<orders, idempotencyMap, nextOrderId, osVars>>
    /\ UNCHANGED <<cycle, riskVars, mdVars, libVars>>

\* SubmitOrder, after the venue call: SUBMIT_FAILED on error, else the
\* venue id is recorded and the acknowledgement's status adopted.
SubmitOrderResult(p) ==
    /\ proc[p].pc = "so_result"
    /\ IF proc[p].ack = "err"
       THEN /\ orders' = updateStatus(proc[p].id, OrderStatusSubmitFailed)
            /\ updateStatusEvent(proc[p].id, OrderStatusSubmitFailed)
            /\ proc' = [proc EXCEPT ![p] =
                   Returned(p, [order |-> NoId, err |-> TRUE, dup |-> FALSE])]
       ELSE /\ orders' = [orders EXCEPT ![proc[p].id].status = proc[p].ack]
            /\ applied' = [applied EXCEPT
                              ![proc[p].id] = NextTransition(proc[p].id)]
            /\ proc' = [proc EXCEPT
                   ![p].pc = "so_publish",
                   ![p].ev = StateChange(proc[p].id, OrderStatusSubmitted,
                                         proc[p].ack)]
            /\ UNCHANGED orderStateSubs
    /\ UNCHANGED <<idempotencyMap, nextOrderId, placeCalls>>
    /\ UNCHANGED <<cycle, riskVars, mdVars, libVars>>

\* SubmitOrder, after the lock is released: the event of the
\* acknowledgement, publishStateChange(order, SUBMITTED, ack.Status), and
\* the return of the order.
SubmitOrderPublish(p) ==
    /\ proc[p].pc = "so_publish"
    /\ PublishOrderState(proc[p].ev)
    /\ proc' = [proc EXCEPT ![p] =
           Returned(p, [order |-> proc[p].id, err |-> FALSE, dup |-> FALSE])]
    /\ UNCHANGED <<orders, idempotencyMap, nextOrderId, placeCalls, applied>>
    /\ UNCHANGED <<cycle, riskVars, mdVars, libVars>>

\* CancelOrder, the read under RLock: unknown order or unknown venue is an
\* error; nothing else is tested.
CancelOrderRead(p, id, caller, rest) ==
    /\ IF ~Exists(id) \/ ~orders[id].venueKnown
       THEN proc' = [proc EXCEPT ![p] =
                [ReturnTo(p, caller, [order |-> id, err |-> TRUE,
                                      dup |-> FALSE])
                    EXCEPT !.todo = rest]]
       ELSE proc' = [proc EXCEPT ![p].pc = "co_venue", ![p].id = id,
                                 ![p].caller = caller, ![p].todo = rest]
    /\ UNCHANGED <<orders, idempotencyMap, nextOrderId, placeCalls, osVars>>

\* CancelOrder, the venue call gw.CancelOrder and what it answers.
CancelOrderVenueAnswer(p, ok) ==
    /\ proc[p].pc = "co_venue"
    /\ IF ok
       THEN proc' = [proc EXCEPT ![p].pc = "co_apply"]
       ELSE proc' = [proc EXCEPT ![p] =
                Returned(p, [order |-> proc[p].id, err |-> TRUE,
                             dup |-> FALSE])]
    /\ UNCHANGED <<orders, idempotencyMap, nextOrderId, placeCalls, osVars>>
    /\ UNCHANGED <<cycle, riskVars, mdVars, libVars>>

CancelOrderVenue(p) == \E ok \in BOOLEAN : CancelOrderVenueAnswer(p, ok)

\* CancelOrder, after the venue's answer: updateStatus(CANCELLED).
CancelOrderApply(p) ==
    /\ proc[p].pc = "co_apply"
    /\ orders' = updateStatus(proc[p].id, OrderStatusCancelled)
    /\ updateStatusEvent(proc[p].id, OrderStatusCancelled)
    /\ proc' = [proc EXCEPT ![p] =
           Returned(p, [order |-> proc[p].id, err |-> FALSE, dup |-> FALSE])]
    /\ UNCHANGED <<idempotencyMap, nextOrderId, placeCalls>>
    /\ UNCHANGED <<cycle, riskVars, mdVars, libVars>>

\* CancelAllOrders, the snapshot of the non-terminal orders under RLock.
ActiveOrders == {id \in OrderIds : Exists(id) /\ ~IsTerminal(orders[id].status)}

CancelAllSnapshot(p) ==
    /\ proc' = [proc EXCEPT ![p].pc = "ca_loop", ![p].todo = ActiveOrders]
    /\ UNCHANGED <<orders, idempotencyMap, nextOrderId, placeCalls, osVars>>

\* CancelAllOrders, one turn of the loop: CancelOrder on the next id of the
\* snapshot (a Go map is ranged in any order), or the end of the call.
CancelAllNext(p) ==
    /\ proc[p].pc = "ca_loop"
    /\ IF proc[p].todo = {}
       THEN /\ proc' = [proc EXCEPT ![p] = IdleProc]
            /\ UNCHANGED <<orders, idempotencyMap, nextOrderId, placeCalls,
                           osVars>>
       ELSE \E id \in proc[p].todo :
                CancelOrderRead(p, id, "cancelall", proc[p].todo \ {id})
    /\ UNCHANGED <<cycle, riskVars, mdVars, libVars>>

\* UpdateOrderFill: one critical section, its event published only if the
\* status differs from the one before.
UpdateOrderFill(id, filledSize) ==
    /\ orders' =
        IF ~Exists(id) THEN orders
        ELSE [orders EXCEPT
                ![id].filled = filledSize,
                ![id].status =
                    IF filledSize >= orders[id].size THEN OrderStatusFilled
                    ELSE IF filledSize > 0 THEN OrderStatusPartialFill
                    ELSE @]
    /\ IF orders'[id].status # orders[id].status
       THEN /\ PublishOrderState(StateChange(id, orders[id].status,
                                             orders'[id].status))
            /\ applied' = [applied EXCEPT ![id] = NextTransition(id)]
       ELSE UNCHANGED osVars
    /\ UNCHANGED <<idempotencyMap, nextOrderId, placeCalls, proc>>

\* CleanupStaleOrders with a maxAge below the age of every order: each
\* terminal order is deleted from orders (and venueIDMap).
StaleOrders == {id \in OrderIds : Exists(id) /\ IsTerminal(orders[id].status)}

CleanupStaleOrders ==
    /\ orders' = [id \in OrderIds |->
                     IF id \in StaleOrders THEN NoOrder ELSE orders[id]]
    /\ UNCHANGED <<idempotencyMap, nextOrderId, placeCalls, proc, osVars>>

(***************************************************************************)
(* Symbols are strings of characters, so that extractAsset is computed as  *)
(* the code computes it.                                                   *)
(***************************************************************************)
SymBTCSpot == <<"B", "T", "C", "/", "U", "S", "D", "T">>   \* "BTC/USDT"
SymBTCPerp == <<"B", "T", "C", "U", "S", "D", "T">>        \* "BTCUSDT"
SymXRPSpot == <<"X", "R", "P", "/", "U", "S", "D", "T">>   \* "XRP/USDT"
Symbols == {SymBTCSpot, SymBTCPerp, SymXRPSpot}

AssetBTC == <<"B", "T", "C">>
AssetETH == <<"E", "T", "H">>
AssetSOL == <<"S", "O", "L">>
AssetXRP == <<"X", "R", "P">>

RECURSIVE SlashIndex(_, _)
\* The index of the first '/' of symbol at or after i, or 0.
SlashIndex(symbol, i) ==
    IF i > Len(symbol) THEN 0
    ELSE IF symbol[i] = "/" THEN i
    ELSE SlashIndex(symbol, i + 1)

HasPrefix(symbol, a) ==
    Len(symbol) >= Len(a) /\ SubSeq(symbol, 1, Len(a)) = a

\* risk.extractAsset: the text before '/', else the first of BTC, ETH, SOL
\* the symbol starts with, else the symbol.
extractAsset(symbol) ==
    IF SlashIndex(symbol, 1) > 0
    THEN SubSeq(symbol, 1, SlashIndex(symbol, 1) - 1)
    ELSE IF HasPrefix(symbol, AssetBTC) THEN AssetBTC
    ELSE IF HasPrefix(symbol, AssetETH) THEN AssetETH
    ELSE IF HasPrefix(symbol, AssetSOL) THEN AssetSOL
    ELSE symbol

Venues == {"nobitex", "kcex"}
Assets == {extractAsset(sym) : sym \in Symbols}
PositionKeys == Venues \X Assets
BookKeys == Venues \X Symbols

(***************************************************************************)
(* config.RiskConfig.  The limits are small so that every one of them is  *)
(* reached; BTC has a position cap, XRP has none.                          *)
(***************************************************************************)
MaxPositionBTC == 2
MaxNotionalPerVenue == 4
DailyLossCapUSDT == 5
WarningThresholdPct == 80
MaxOpenOrdersGlobal == 3
MaxOpenOrdersPerVenue == 2
MaxOpenOrdersPerSymbol == 1

HasMaxPosition(asset) == asset = AssetBTC
MaxPosition(asset) == MaxPositionBTC

(***************************************************************************)
(* risk.Manager, risk.KillSwitch and risk.PnLTracker.                      *)
(***************************************************************************)
RiskModeNormal == "NORMAL"
RiskModeWarning == "WARNING"
RiskModeHalted == "HALTED"

Approved == "approved"
RejectPositionLimit == "position_limit_exceeded"
RejectNotionalLimit == "notional_limit_exceeded"
RejectDailyLoss == "daily_loss_cap"
RejectGlobalOrders == "global_order_limit"
RejectVenueOrders == "venue_order_limit"
RejectSymbolOrders == "symbol_order_limit"
RejectDataStale == "data_stale"
RejectKillSwitch == "kill_switch_active"
RejectHalted == "system_halted"

NoValidation == [signal |-> 0, reason |-> "none"]

Abs(x) == IF x < 0 THEN -x ELSE x

\* Durations in ticks of the model's clock; the configured defaults are
\* 500 ms and 2 s.
StaleDuration == 1          \* Service.staleDuration
BlockDuration == 4          \* Service.blockDuration
MaxAge == 6                 \* ages are followed up to this many ticks
NoAge == -1                 \* no entry in Service.lastUpdate

\* marketdata.Service.IsDataFresh: an update is recorded and
\* time.Since(t) < staleDuration.
IsDataFresh(venue, symbol) ==
    LET age == mdAge[<<venue, symbol>>]
    IN  IF age = NoAge THEN FALSE ELSE age < StaleDuration

\* marketdata.Service.IsDataBlocked: no update recorded, or
\* time.Since(t) > blockDuration.
IsDataBlocked(venue, symbol) ==
    LET age == mdAge[<<venue, symbol>>]
    IN  IF age = NoAge THEN TRUE ELSE age > BlockDuration

\* PnLTracker.TotalDailyPnL
TotalDailyPnL == pnl.realized + pnl.unrealized

RECURSIVE SumNotional(_, _)
\* The sum of leg.Price * leg.Size over legs i..Len(legs).
SumNotional(legs, i) ==
    IF i > Len(legs) THEN 0
    ELSE legs[i].price * legs[i].size + SumNotional(legs, i + 1)

\* The checks of ValidateSignal, each as the code tests it.
DataBlockedFails(signal) ==
    \E i \in 1..Len(signal.legs) : IsDataBlocked(signal.venue, signal.legs[i].symbol)

PositionLimitFails(signal) ==
    \E i \in 1..Len(signal.legs) :
        LET asset == extractAsset(signal.legs[i].symbol) IN
        /\ HasMaxPosition(asset)
        /\ Abs(positions[<<signal.venue, asset>>]) + signal.legs[i].size
               > MaxPosition(asset)

NotionalLimitFails(signal) ==
    venueNotionals[signal.venue] + SumNotional(signal.legs, 1)
        > MaxNotionalPerVenue

DailyLossFails == TotalDailyPnL <= -DailyLossCapUSDT

GlobalOrdersFails == openOrderCounts.global >= MaxOpenOrdersGlobal

VenueOrdersFails(signal) ==
    openOrderCounts.perVenue[signal.venue] >= MaxOpenOrdersPerVenue

SymbolOrdersFails(signal) ==
    \E i \in 1..Len(signal.legs) :
        openOrderCounts.perSymbol[signal.legs[i].symbol] >= MaxOpenOrdersPerSymbol

\* ValidateSignal with the notional check moved before the position check.
ValidateSignalNotionalFirst(signal) ==
    IF killSwitch.active THEN RejectKillSwitch
    ELSE IF mode = RiskModeHalted THEN RejectHalted
    ELSE IF DataBlockedFails(signal) THEN RejectDataStale
    ELSE IF NotionalLimitFails(signal) THEN RejectNotionalLimit
    ELSE IF PositionLimitFails(signal) THEN RejectPositionLimit
    ELSE IF DailyLossFails THEN RejectDailyLoss
    ELSE IF GlobalOrdersFails THEN RejectGlobalOrders
    ELSE IF VenueOrdersFails(signal) THEN RejectVenueOrders
    ELSE IF SymbolOrdersFails(signal) THEN RejectSymbolOrders
    ELSE Approved

\* Manager.ValidateSignal: the reason of the rejection, or Approved.
ValidateSignal(signal) ==
    IF killSwitch.active THEN RejectKillSwitch
    ELSE IF mode = RiskModeHalted THEN RejectHalted
    ELSE IF DataBlockedFails(signal) THEN RejectDataStale
    ELSE IF PositionLimitFails(signal) THEN RejectPositionLimit
    ELSE IF NotionalLimitFails(signal) THEN RejectNotionalLimit
    ELSE IF DailyLossFails THEN RejectDailyLoss
    ELSE IF GlobalOrdersFails THEN RejectGlobalOrders
    ELSE IF VenueOrdersFails(signal) THEN RejectVenueOrders
    ELSE IF SymbolOrdersFails(signal) THEN RejectSymbolOrders
    ELSE Approved

\* KillSwitch.persistState: what os.WriteFile leaves in the file.
persistState(ks) ==
    [content |-> "state", active |-> ks.active, reason |-> ks.reason]

FileAbsent == [content |-> "absent", active |-> FALSE, reason |-> ""]
FileCorrupt == [content |-> "corrupt", active |-> FALSE, reason |-> ""]

\* loadState that never reads the file.
loadStateFresh(file) == [active |-> FALSE, reason |-> ""]

\* KillSwitch.loadState on a fresh KillSwitch: a missing or unparseable
\* file leaves it inactive.
loadState(file) ==
    IF file.content = "absent" \/ file.content = "corrupt"
    THEN [active |-> FALSE, reason |-> ""]
    ELSE [active |-> file.active, reason |-> file.reason]

\* KillSwitch.Activate
Activate(reason) ==
    /\ killSwitch' = [active |-> TRUE, reason |-> reason]
    /\ ksFile' = persistState([active |-> TRUE, reason |-> reason])

\* KillSwitch.Deactivate
Deactivate ==
    /\ killSwitch' = [active |-> FALSE, reason |-> ""]
    /\ ksFile' = persistState([active |-> FALSE, reason |-> ""])

\* The comparisons of checkPnLLimits with the cap excluded, and with the
\* warning level at zero.
PnLBreachStrict(total) == total < -DailyLossCapUSDT
PnLWarningEarly(total) == total <= 0

\* The two comparisons of checkPnLLimits; the warning level is
\* -cap * pct / 100, compared without rounding.
PnLBreach(total) == total <= -DailyLossCapUSDT
PnLWarning(total) == total * 100 <= -(DailyLossCapUSDT * WarningThresholdPct)

\* Manager.checkPnLLimits on a total daily PnL.
checkPnLLimits(total) ==
    IF PnLBreach(total)
    THEN /\ mode' = RiskModeHalted
         /\ Activate("pnl")
         /\ pendingCallbacks' =
                IF onKillSwitch THEN pendingCallbacks + 1 ELSE pendingCallbacks
    ELSE /\ mode' = IF PnLWarning(total) /\ mode = RiskModeNormal
                    THEN RiskModeWarning ELSE mode
         /\ UNCHANGED <<killSwitch, ksFile, pendingCallbacks>>

(***************************************************************************)
(* Signals.  Sig1 is one BTC leg; Sig2 a basis-arb pair, both legs on BTC; *)
(* Sig3 an uncapped asset at the notional cap; Sig4 breaks the notional    *)
(* cap whatever the state.                                                 *)
(***************************************************************************)
Leg(symbol, side, price, size) ==
    [symbol |-> symbol, side |-> side, price |-> price, size |-> size]

StrategyTriArb == "TRI_ARB"
StrategyBasisArb == "BASIS_ARB"

Sig1 ==
    [id |-> 1, strategy |-> StrategyTriArb, venue |-> "nobitex",
     legs |-> <<Leg(SymBTCSpot, "BUY", 1, 1)>>]
Sig2 ==
    [id |-> 2, strategy |-> StrategyBasisArb, venue |-> "nobitex",
     legs |-> <<Leg(SymBTCSpot, "BUY", 1, 1), Leg(SymBTCPerp, "SELL", 1, 1)>>]
Sig3 ==
    [id |-> 3, strategy |-> StrategyTriArb, venue |-> "nobitex",
     legs |-> <<Leg(SymXRPSpot, "BUY", 2, 2)>>]
Sig4 ==
    [id |-> 4, strategy |-> StrategyTriArb, venue |-> "nobitex",
     legs |-> <<Leg(SymBTCSpot, "BUY", 2, 2), Leg(SymXRPSpot, "SELL", 1, 1)>>]
Signals == {Sig1, Sig2, Sig3, Sig4}

(***************************************************************************)
(* Bounds on what the environment feeds the risk manager.                  *)
(***************************************************************************)
Overshoot == 1              \* how far past a limit a counter may be driven
MaxPendingCallbacks == 2    \* callback goroutines not yet scheduled
MaxRestarts == 2            \* process restarts

\* PnLTracker.AddRealizedPnL, with checkDailyReset.
AddRealizedPnL(amount) ==
    IF pnl.newDay
    THEN [realized |-> amount, unrealized |-> 0, newDay |-> FALSE]
    ELSE [pnl EXCEPT !.realized = @ + amount]

\* Manager.OnOrderFill
OnOrderFill(order, amount) ==
    LET key == <<order.venue, extractAsset(order.symbol)>>
        newPnl == AddRealizedPnL(amount)
        newPos == IF order.side = "BUY"
                  THEN positions[key] + order.filled
                  ELSE positions[key] - order.filled
        newNotional == venueNotionals[order.venue] + order.avgPrice * order.filled
    IN  /\ Abs(newPos) <= MaxPositionBTC + Overshoot
        /\ newNotional <= MaxNotionalPerVenue + Overshoot
        /\ newPnl.realized >= -(DailyLossCapUSDT + Overshoot)
        /\ newPnl.realized <= Overshoot
        /\ PnLBreach(newPnl.realized + newPnl.unrealized) /\ onKillSwitch
               => pendingCallbacks < MaxPendingCallbacks
        /\ pnl' = newPnl
        /\ positions' = [positions EXCEPT ![key] = newPos]
        /\ venueNotionals' = [venueNotionals EXCEPT ![order.venue] = newNotional]
        /\ checkPnLLimits(newPnl.realized + newPnl.unrealized)
        /\ lastValidation' = NoValidation
        /\ UNCHANGED <<openOrderCounts, onKillSwitch, mdLastUpdate, mdAge, restarts>>
        /\ UNCHANGED <<omVars, osVars, mdVars, libVars>>

\* The counts Manager.OnOrderStateChange leaves: one more for a change from
\* PENDING_NEW to a non-terminal status, one less, and never below zero,
\* for a change to a terminal status.
CountsAfter(counts, change) ==
    LET isNew == ~IsTerminal(change.prev) /\ ~IsTerminal(change.new)
        inc == IF isNew /\ change.prev = OrderStatusPendingNew THEN 1 ELSE 0
        dec == IF IsTerminal(change.new) THEN 1 ELSE 0
        Clamp(n) == IF dec = 1 /\ n < 0 THEN 0 ELSE n
        v == change.venue
        sym == change.symbol
    IN  [global |-> Clamp(counts.global + inc - dec),
         perVenue |-> [counts.perVenue EXCEPT ![v] = Clamp(@ + inc - dec)],
         perSymbol |-> [counts.perSymbol EXCEPT ![sym] = Clamp(@ + inc - dec)]]

\* Manager.OnOrderStateChange
OnOrderStateChange(change) ==
    /\ CountsAfter(openOrderCounts, change).global
           <= MaxOpenOrdersGlobal + Overshoot
    /\ openOrderCounts' = CountsAfter(openOrderCounts, change)
    /\ lastValidation' = NoValidation
    /\ UNCHANGED <<mode, positions, venueNotionals, pnl, killSwitch, ksFile,
                   onKillSwitch, pendingCallbacks, mdLastUpdate, mdAge, restarts>>
    /\ UNCHANGED <<omVars, osVars, mdVars, libVars>>

\* A consumer of the bus hands the next OrderStateChange of its channel to
\* Manager.OnOrderStateChange; every order is on OrdersVenue, OrdersSymbol.
OrdersVenue == "nobitex"
OrdersSymbol == SymBTCSpot

RiskReceiveOrderState(s) ==
    /\ orderStateSubs[s] # <<>>
    /\ LET e == Head(orderStateSubs[s]) IN
       openOrderCounts' =
           CountsAfter(openOrderCounts,
                       [venue |-> OrdersVenue, symbol |-> OrdersSymbol,
                        prev |-> e.prev, new |-> e.new])
    /\ orderStateSubs' = [orderStateSubs EXCEPT ![s] = Tail(@)]
    /\ lastValidation' = NoValidation
    /\ UNCHANGED <<mode, positions, venueNotionals, pnl, killSwitch, ksFile,
                   onKillSwitch, pendingCallbacks, mdLastUpdate, mdAge, restarts>>
    /\ UNCHANGED <<omVars, applied, mdVars, libVars>>

\* One tick of Manager.RunPeriodicCheck.
PeriodicCheck ==
    /\ PnLBreach(TotalDailyPnL) /\ onKillSwitch
           => pendingCallbacks < MaxPendingCallbacks
    /\ checkPnLLimits(TotalDailyPnL)
    /\ lastValidation' = NoValidation
    /\ UNCHANGED <<positions, venueNotionals, openOrderCounts, pnl,
                   onKillSwitch, mdLastUpdate, mdAge, restarts>>
    /\ UNCHANGED <<omVars, osVars, mdVars, libVars>>

\* Manager.ActivateKillSwitch
ActivateKillSwitch(reason) ==
    /\ mode' = RiskModeHalted
    /\ Activate(reason)
    /\ lastValidation' = NoValidation
    /\ UNCHANGED <<positions, venueNotionals, openOrderCounts, pnl,
                   onKillSwitch, pendingCallbacks, mdLastUpdate, mdAge, restarts>>
    /\ UNCHANGED <<omVars, osVars, mdVars, libVars>>

\* Manager.DeactivateKillSwitch
DeactivateKillSwitch ==
    /\ mode' = RiskModeNormal
    /\ Deactivate
    /\ lastValidation' = NoValidation
    /\ UNCHANGED <<positions, venueNotionals, openOrderCounts, pnl,
                   onKillSwitch, pendingCallbacks, mdLastUpdate, mdAge, restarts>>
    /\ UNCHANGED <<omVars, osVars, mdVars, libVars>>

\* Manager.SetKillSwitchCallback, as main wires it to Engine.KillSwitchHandler.
SetKillSwitchCallback ==
    /\ ~onKillSwitch
    /\ onKillSwitch' = TRUE
    /\ lastValidation' = NoValidation
    /\ UNCHANGED <<mode, positions, venueNotionals, openOrderCounts, pnl,
                   killSwitch, ksFile, pendingCallbacks, mdLastUpdate, mdAge, restarts>>
    /\ UNCHANGED <<omVars, osVars, mdVars, libVars>>

\* UTC midnight passes: todayUTC() is now after PnLTracker.lastReset.
MidnightPasses ==
    /\ ~pnl.newDay
    /\ pnl' = [pnl EXCEPT !.newDay = TRUE]
    /\ lastValidation' = NoValidation
    /\ UNCHANGED <<mode, positions, venueNotionals, openOrderCounts,
                   killSwitch, ksFile, onKillSwitch, pendingCallbacks,
                   mdLastUpdate, mdAge, restarts>>
    /\ UNCHANGED <<omVars, osVars, mdVars, libVars>>

\* marketdata.Service records an update for a book: lastUpdate[key] = now.
MarketDataUpdate(key) ==
    /\ mdAge[key] # 0
    /\ mdLastUpdate' = [mdLastUpdate EXCEPT ![key] = "recent"]
    /\ mdAge' = [mdAge EXCEPT ![key] = 0]
    /\ lastValidation' = NoValidation
    /\ UNCHANGED riskStateVars
    /\ UNCHANGED restarts
    /\ UNCHANGED <<omVars, osVars, mdVars, libVars>>

\* Time passes: the latest update of a book is now older than blockDuration.
MarketDataExpires(key) ==
    /\ mdLastUpdate[key] = "recent"
    /\ mdLastUpdate' = [mdLastUpdate EXCEPT ![key] = "expired"]
    /\ mdAge' = [mdAge EXCEPT ![key] = BlockDuration + 1]
    /\ lastValidation' = NoValidation
    /\ UNCHANGED riskStateVars
    /\ UNCHANGED restarts
    /\ UNCHANGED <<omVars, osVars, mdVars, libVars>>

\* One tick of the clock: every recorded update is one tick older.
TimePasses ==
    /\ \E key \in BookKeys : mdAge[key] \notin {NoAge, MaxAge}
    /\ mdAge' = [key \in BookKeys |->
                   IF mdAge[key] \in {NoAge, MaxAge} THEN mdAge[key]
                   ELSE mdAge[key] + 1]
    /\ mdLastUpdate' = [key \in BookKeys |->
                          IF mdAge'[key] = NoAge THEN "never"
                          ELSE IF mdAge'[key] > BlockDuration THEN "expired"
                          ELSE "recent"]
    /\ lastValidation' = NoValidation
    /\ UNCHANGED riskStateVars
    /\ UNCHANGED restarts
    /\ UNCHANGED <<omVars, osVars, mdVars, libVars>>

\* A caller runs Manager.ValidateSignal; the call changes nothing it reads.
ValidateSignalCall(signal) ==
    /\ lastValidation' = [signal |-> signal.id, reason |-> ValidateSignal(signal)]
    /\ lastValidation' # lastValidation
    /\ UNCHANGED riskStateVars
    /\ UNCHANGED <<mdLastUpdate, mdAge, restarts>>
    /\ UNCHANGED <<omVars, osVars, mdVars, libVars>>

(***************************************************************************)
(* marketdata.Service, the order books.  A Go slice is a view of the first *)
(* len cells of a backing array.  Only the array a stored book points to   *)
(* is ever written, so one side of a book is that array (cells, as far as  *)
(* it was ever written), the length of the book's slice and the array's    *)
(* capacity; a copy of the slice header is a reference (shared, len) to    *)
(* the same array, until the book moves to another array: from then on the *)
(* copy sees the levels the old array was left with.                       *)
(***************************************************************************)
MaxPrice == 2          \* prices are 1..MaxPrice
MaxLevelSize == 2      \* sizes of a level are 1..MaxLevelSize; 0 in a delta removes
MaxSequence == 3       \* sequence numbers of snapshots and deltas
MaxDeltaLevels == 1    \* levels per side in one delta
InitialCap == 2        \* make([]PriceLevel, 0, 20), scaled

Prices == 1..MaxPrice

NilSide == [cells |-> <<>>, len |-> 0, cap |-> 0]
MadeSide == [cells |-> <<>>, len |-> 0, cap |-> InitialCap]
NoBook == [exists |-> FALSE, bids |-> NilSide, asks |-> NilSide, sequence |-> 0]

\* The levels of the slice of a side.
Levels(side) == SubSeq(side.cells, 1, side.len)

\* levels[i].Size = d.Size
SetSize(side, i, size) == [side EXCEPT !.cells[i].size = size]

\* append(levels[:i], levels[i+1:]...): the levels after i move down one
\* cell, the last cell keeps what it held.
RemoveAt(side, i) ==
    [side EXCEPT
        !.cells = [k \in 1..Len(side.cells) |->
                      IF k >= i /\ k < side.len THEN side.cells[k + 1]
                      ELSE side.cells[k]],
        !.len = side.len - 1]

\* The capacity append gives the array it allocates.
GrownCap(cap) == IF cap = 0 THEN 1 ELSE 2 * cap

\* append(levels, d): in place while the capacity allows, else into a new
\* array; st.left remembers the cells of the array the book moved from.
AppendLevel(st, d) ==
    LET side == st.side IN
    IF side.len < side.cap
    THEN [st EXCEPT
            !.side.cells = IF side.len < Len(side.cells)
                           THEN [side.cells EXCEPT ![side.len + 1] = d]
                           ELSE Append(side.cells, d),
            !.side.len = side.len + 1]
    ELSE [side |-> [cells |-> Append(Levels(side), d),
                    len |-> side.len + 1,
                    cap |-> GrownCap(side.cap)],
          moved |-> TRUE,
          left |-> IF st.moved THEN st.left ELSE side.cells]

\* The index of the first level with the price, 0 if there is none.
IndexOfPrice(levels, price) ==
    IF \E i \in 1..Len(levels) : levels[i].price = price
    THEN CHOOSE i \in 1..Len(levels) :
            /\ levels[i].price = price
            /\ \A k \in 1..(i - 1) : levels[k].price # price
    ELSE 0

\* The body of the loop of applyLevelDeltas for one delta d.
ApplyLevelDelta(st, d) ==
    LET i == IndexOfPrice(Levels(st.side), d.price) IN
    IF i # 0
    THEN IF d.size = 0
         THEN [st EXCEPT !.side = RemoveAt(st.side, i)]
         ELSE [st EXCEPT !.side = SetSize(st.side, i, d.size)]
    ELSE IF d.size # 0 THEN AppendLevel(st, d) ELSE st

RECURSIVE ApplyLevelDeltas(_, _)
ApplyLevelDeltas(st, deltas) ==
    IF deltas = <<>> THEN st
    ELSE ApplyLevelDeltas(ApplyLevelDelta(st, Head(deltas)), Tail(deltas))

\* sortLevels that leaves the levels as they are.
sortLevelsNone(levels, descending) == levels

\* The inner loop of sortLevels: levels[j] moves towards the front while it
\* is out of order with the level before it.
RECURSIVE SortInner(_, _, _)
SortInner(levels, j, descending) ==
    IF j > 1 /\ (IF descending
                 THEN levels[j].price > levels[j - 1].price
                 ELSE levels[j].price < levels[j - 1].price)
    THEN SortInner([levels EXCEPT ![j] = levels[j - 1], ![j - 1] = levels[j]],
                   j - 1, descending)
    ELSE levels

RECURSIVE SortOuter(_, _, _)
SortOuter(levels, i, descending) ==
    IF i > Len(levels) THEN levels
    ELSE SortOuter(SortInner(levels, i, descending), i + 1, descending)

\* sortLevels: an insertion sort, in place.
sortLevels(levels, descending) == SortOuter(levels, 2, descending)

\* applyLevelDeltas: every delta in turn, then the sort of the slice.
applyLevelDeltas(side, deltas, descending) ==
    LET st == ApplyLevelDeltas([side |-> side, moved |-> FALSE, left |-> <<>>],
                               deltas)
        sorted == sortLevels(Levels(st.side), descending)
    IN  [st EXCEPT !.side.cells =
            sorted \o SubSeq(st.side.cells, st.side.len + 1,
                             Len(st.side.cells))]

\* A copy of a slice header of the stored book.
SharedRef(side) == [shared |-> TRUE, len |-> side.len, levels |-> <<>>]

\* "snap := *book": the fields are copied, the arrays are not.
SnapshotOf(key, book) ==
    [key |-> key, bids |-> SharedRef(book.bids), asks |-> SharedRef(book.asks),
     sequence |-> book.sequence]

\* The levels a holder of the snapshot reads on a side.
ViewOf(ref, side) ==
    IF ref.shared THEN SubSeq(side.cells, 1, ref.len) ELSE ref.levels

BidsOf(snap) == ViewOf(snap.bids, books[snap.key].bids)
AsksOf(snap) == ViewOf(snap.asks, books[snap.key].asks)

\* A reference once the book has moved from the array, left with cells.
Detached(ref, moved, cells) ==
    IF ref.shared /\ moved
    THEN [shared |-> FALSE, len |-> ref.len,
          levels |-> SubSeq(cells, 1, ref.len)]
    ELSE ref

\* A snapshot after an operation on the book of key moved the book from
\* the arrays told by b (bids) and a (asks).
Settled(snap, key, b, a) ==
    IF snap.key # key THEN snap
    ELSE [snap EXCEPT !.bids = Detached(snap.bids, b.moved, b.left),
                      !.asks = Detached(snap.asks, a.moved, a.left)]

\* What one operation on the book of key does to the snapshots held and to
\* the events in the channels, and its event.
StoreAndPublish(key, book, b, a) ==
    /\ books' = [books EXCEPT ![key] = book]
    /\ mdLastUpdate' = [mdLastUpdate EXCEPT ![key] = "recent"]
    /\ mdAge' = [mdAge EXCEPT ![key] = 0]
    /\ held' = [i \in 1..Len(held) |-> Settled(held[i], key, b, a)]
    /\ orderBookSubs' =
           Deliver([s \in 1..Len(orderBookSubs) |->
                       [i \in 1..Len(orderBookSubs[s]) |->
                           Settled(orderBookSubs[s][i], key, b, a)]],
                   SnapshotOf(key, book))
    /\ lastValidation' = NoValidation
    /\ UNCHANGED <<riskStateVars, restarts, omVars, osVars, libVars>>

\* Service.UpdateOrderBook: the snapshot is stored as it comes, with the
\* slices of the caller, and published.
UpdateOrderBook(snap) ==
    LET old == books[snap.key]
        book == [exists |-> TRUE,
                 bids |-> [cells |-> snap.bids, len |-> Len(snap.bids),
                           cap |-> Len(snap.bids)],
                 asks |-> [cells |-> snap.asks, len |-> Len(snap.asks),
                           cap |-> Len(snap.asks)],
                 sequence |-> snap.sequence]
    IN  StoreAndPublish(snap.key, book,
                        [moved |-> TRUE, left |-> old.bids.cells],
                        [moved |-> TRUE, left |-> old.asks.cells])

\* Service.ApplyDelta: the book is made if there is none, the deltas are
\* applied to both sides, the sequence number of the delta is taken over,
\* and the copy "snap := *book" is published.
ApplyDelta(delta) ==
    LET old == IF books[delta.key].exists THEN books[delta.key]
               ELSE [exists |-> TRUE, bids |-> MadeSide, asks |-> MadeSide,
                     sequence |-> 0]
        b == applyLevelDeltas(old.bids, delta.bids, TRUE)
        a == applyLevelDeltas(old.asks, delta.asks, FALSE)
        book == [exists |-> TRUE, bids |-> b.side, asks |-> a.side,
                 sequence |-> delta.sequence]
    IN  StoreAndPublish(delta.key, book, b, a)

\* Service.GetOrderBook: "snap := *book" handed to the caller.
GetOrderBook(key) ==
    /\ held = <<>>
    /\ books[key].exists
    /\ held' = <<SnapshotOf(key, books[key])>>
    /\ UNCHANGED <<omVars, riskVars, osVars, orderBookSubs, books, libVars>>

\* The caller is done with the snapshot.
ReleaseSnapshot ==
    /\ held # <<>>
    /\ held' = <<>>
    /\ UNCHANGED <<omVars, riskVars, osVars, orderBookSubs, books, libVars>>

SubscribeOrderBook ==
    /\ Len(orderBookSubs) < MaxSubscribers
    /\ orderBookSubs' = Append(orderBookSubs, <<>>)
    /\ UNCHANGED <<omVars, riskVars, osVars, books, held, libVars>>

\* A subscriber takes the next snapshot from its channel.
ReceiveOrderBook(s) ==
    /\ orderBookSubs[s] # <<>>
    /\ orderBookSubs' = [orderBookSubs EXCEPT ![s] = Tail(@)]
    /\ UNCHANGED <<omVars, riskVars, osVars, books, held, libVars>>

\* A direct call of EventBus.PublishOrderBook.
CallPublishOrderBook(snap) ==
    /\ PublishOrderBook(snap)
    /\ UNCHANGED <<omVars, riskVars, osVars, books, held, libVars>>

(***************************************************************************)
(* Direct calls of the order manager's operations, each by a goroutine of  *)
(* its own.                                                                *)
(***************************************************************************)
MaxApiOrders == 2      \* orders created by direct calls

CallSubmitOrder(p) ==
    /\ proc[p].pc = "idle"
    /\ nextOrderId <= MaxApiOrders
    /\ \E key \in ApiKeys, size \in {MaxSize}, venueKnown \in BOOLEAN :
           /\ SubmitOrderEnter(p, [id |-> nextOrderId, key |-> key,
                                   size |-> size, venueKnown |-> venueKnown],
                               "api")
    /\ UNCHANGED <<cycle, riskVars, mdVars, libVars>>

CallCancelOrder(p) ==
    /\ proc[p].pc = "idle"
    /\ \E id \in OrderIds :
           /\ id < nextOrderId
           /\ CancelOrderRead(p, id, "api", {})
    /\ UNCHANGED <<cycle, riskVars, mdVars, libVars>>

CallCancelAllOrders(p) ==
    /\ proc[p].pc = "idle"
    /\ CancelAllSnapshot(p)
    /\ UNCHANGED <<cycle, riskVars, mdVars, libVars>>

CallCleanupStaleOrders ==
    /\ StaleOrders # {}
    /\ CleanupStaleOrders
    /\ UNCHANGED <<cycle, riskVars, mdVars, libVars>>

MaxFill == 3            \* the largest filled size a fill report carries

CallUpdateOrderFill ==
    /\ \E id \in OrderIds, filledSize \in 0..MaxFill :
           /\ id < nextOrderId
           /\ UpdateOrderFill(id, filledSize)
    /\ UNCHANGED <<cycle, riskVars, mdVars, libVars>>

(***************************************************************************)
(* execution.Engine.  Engine.Run starts one goroutine per signal received  *)
(* from the bus; a signal is published once, so it is executed once.       *)
(***************************************************************************)
MaxRetries == 2        \* Engine.maxRetries (strategies.*.max_retries)

EngineSignals == {Sig1, Sig2}
SigIds == {sig.id : sig \in Signals}
SignalById(id) == CHOOSE sig \in Signals : sig.id = id
EngineKeys ==
    UNION {{<<sig.id, i>> : i \in 0..(Len(sig.legs) - 1)} : sig \in EngineSignals}
AllKeys == ApiKeys \cup EngineKeys

NoCycle == [validation |-> "none", reports |-> <<>>]

\* executeSignal without its test of the verdict.
RiskGateOpen(reason) == TRUE

\* The test of executeSignal on the verdict of the risk manager.
RiskGatePasses(reason) == reason = Approved

\* Engine.publishReport
publishReport(sigId, status) ==
    cycle' = [cycle EXCEPT ![sigId].reports = Append(@, status)]

\* Engine.executeSignal up to the strategy switch: the risk gate.
ExecuteSignal(p, signal) ==
    /\ proc[p].pc = "idle"
    /\ cycle[signal.id].validation = "none"
    /\ LET reason == ValidateSignal(signal) IN
       /\ cycle' = [cycle EXCEPT ![signal.id].validation = reason]
       /\ IF RiskGatePasses(reason)
          THEN proc' = [proc EXCEPT ![p] =
                   [IdleProc EXCEPT !.pc = "leg", !.sig = signal.id]]
          ELSE proc' = [proc EXCEPT ![p] = IdleProc]
    /\ UNCHANGED <<orders, idempotencyMap, nextOrderId, placeCalls, osVars>>
    /\ UNCHANGED <<riskVars, mdVars, libVars>>

\* executeTriArb / executeBasisArb, the head of the leg loop: the report
\* "completed" after the last leg, else the leg's request and the first
\* attempt of submitWithRetry.
EngineLeg(p) ==
    /\ proc[p].pc = "leg"
    /\ LET signal == SignalById(proc[p].sig)
           i == proc[p].leg
       IN  IF i >= Len(signal.legs)
           THEN /\ publishReport(signal.id, "completed")
                /\ proc' = [proc EXCEPT ![p] = IdleProc]
                /\ UNCHANGED <<orders, idempotencyMap, nextOrderId, placeCalls,
                               osVars>>
           ELSE /\ nextOrderId <= MaxOrders
                /\ SubmitOrderEnter(p, [id |-> nextOrderId,
                                        key |-> <<signal.id, i>>,
                                        size |-> signal.legs[i + 1].size,
                                        venueKnown |-> TRUE],
                                    "engine")
                /\ UNCHANGED cycle
    /\ UNCHANGED <<riskVars, mdVars, libVars>>

\* submitWithRetry after SubmitOrder returned: the order on success, else
\* the next attempt, or the error once the attempts are used up.
SubmitWithRetryResult(p) ==
    /\ proc[p].pc = "swr_result"
    /\ IF ~proc[p].ret.err
       THEN proc' = [proc EXCEPT ![p].pc = "leg",
                                 ![p].placed = Append(@, proc[p].ret.order),
                                 ![p].leg = @ + 1,
                                 ![p].attempt = 0]
       ELSE IF proc[p].attempt + 1 > MaxRetries
       THEN proc' = [proc EXCEPT ![p].pc = "ab_loop", ![p].abortAt = 1]
       ELSE proc' = [proc EXCEPT ![p].pc = "swr_backoff", ![p].attempt = @ + 1]
    /\ UNCHANGED <<orders, idempotencyMap, nextOrderId, placeCalls, cycle>>
    /\ UNCHANGED <<riskVars, osVars, mdVars, libVars>>

\* submitWithRetry, the select before a retry: the context's error if the
\* cycle's deadline has passed ...
SubmitWithRetryCancelled(p) ==
    /\ proc[p].pc = "swr_backoff"
    /\ proc[p].ctxDone
    /\ proc' = [proc EXCEPT ![p].pc = "ab_loop", ![p].abortAt = 1]
    /\ UNCHANGED <<orders, idempotencyMap, nextOrderId, placeCalls, cycle>>
    /\ UNCHANGED <<riskVars, osVars, mdVars, libVars>>

\* ... or, the backoff over, SubmitOrder again with the same request.
SubmitWithRetryAgain(p) ==
    /\ proc[p].pc = "swr_backoff"
    /\ SubmitOrderEnter(p, [id |-> proc[p].id, key |-> proc[p].key,
                            size |-> orders[proc[p].id].size,
                            venueKnown |-> proc[p].venueKnown],
                        "engine")
    /\ UNCHANGED <<cycle, riskVars, mdVars, libVars>>

\* The deadline of the cycle's context (context.WithTimeout) passes.
CycleDeadline(p) ==
    /\ proc[p].sig # 0
    /\ ~proc[p].ctxDone
    /\ proc' = [proc EXCEPT ![p].ctxDone = TRUE]
    /\ UNCHANGED <<orders, idempotencyMap, nextOrderId, placeCalls, cycle>>
    /\ UNCHANGED <<riskVars, osVars, mdVars, libVars>>

\* Which orders abortCycle passes over.
AbortSkips(id) == id = NoId \/ IsTerminal(orders[id].status)

\* abortCycle, one turn of its loop, and after it the report "aborted".
AbortLoop(p) ==
    /\ proc[p].pc = "ab_loop"
    /\ LET k == proc[p].abortAt IN
       IF k > Len(proc[p].placed)
       THEN /\ publishReport(proc[p].sig, "aborted")
            /\ proc' = [proc EXCEPT ![p] = IdleProc]
            /\ UNCHANGED <<orders, idempotencyMap, nextOrderId, placeCalls,
                           osVars>>
       ELSE IF AbortSkips(proc[p].placed[k])
       THEN /\ proc' = [proc EXCEPT ![p].abortAt = k + 1]
            /\ UNCHANGED <<orders, idempotencyMap, nextOrderId, placeCalls,
                           cycle, osVars>>
       ELSE /\ CancelOrderRead(p, proc[p].placed[k], "abort", {})
            /\ UNCHANGED cycle
    /\ UNCHANGED <<riskVars, mdVars, libVars>>

\* Engine.KillSwitchHandler, run by a goroutine checkPnLLimits started:
\* CancelAllOrders.
KillSwitchHandler(p) ==
    /\ proc[p].pc = "idle"
    /\ pendingCallbacks > 0
    /\ pendingCallbacks' = pendingCallbacks - 1
    /\ CancelAllSnapshot(p)
    /\ lastValidation' = NoValidation
    /\ UNCHANGED <<cycle, mode, positions, venueNotionals, openOrderCounts, pnl,
                   killSwitch, ksFile, onKillSwitch, mdLastUpdate, mdAge, restarts>>
    /\ UNCHANGED <<mdVars, libVars>>

(***************************************************************************)
(* gateway.TokenBucket.  Time is counted in ticks, one tick the time in    *)
(* which refillRate adds RefillPerTick tokens; a weight is not negative.   *)
(***************************************************************************)
Capacity == 2           \* TokenBucket.capacity
RefillPerTick == 1      \* TokenBucket.refillRate, per tick
MaxElapsed == 3         \* ticks followed since lastRefill
MaxWeight == 3          \* largest weight asked for, above the capacity
NumAcquirers == 2       \* concurrent callers of Acquire

Weights == 0..MaxWeight
Acquirers == 1..NumAcquirers

\* NewTokenBucket: the bucket starts full.
NewTokenBucket == [tokens |-> Capacity, elapsed |-> 0]

\* A refill that forgets the capacity.
refillUncapped(b) ==
    [tokens |-> b.tokens + b.elapsed * RefillPerTick, elapsed |-> 0]

\* TokenBucket.refill
refill(b) ==
    LET added == b.tokens + b.elapsed * RefillPerTick
    IN  [tokens |-> IF added > Capacity THEN Capacity ELSE added,
         elapsed |-> 0]

\* TokenBucket.TryAcquire, under the bucket's mutex.
TryAcquire(b, weight) ==
    LET r == refill(b)
    IN  IF r.tokens >= weight
        THEN [bucket |-> [r EXCEPT !.tokens = @ - weight], ok |-> TRUE]
        ELSE [bucket |-> r, ok |-> FALSE]

NoTry == [weight |-> 0, ok |-> FALSE, calls |-> 0]
IdleAcquirer ==
    [pc |-> "idle", weight |-> 0, cancelled |-> FALSE, slept |-> FALSE,
     result |-> "none"]

\* A tick of the clock; the 10 ms timer of every waiting Acquire has fired.
BucketTick ==
    /\ \/ bucket.elapsed < MaxElapsed
       \/ \E a \in Acquirers : acquirers[a].pc = "select" /\ ~acquirers[a].slept
    /\ bucket' = [bucket EXCEPT !.elapsed =
                      IF @ < MaxElapsed THEN @ + 1 ELSE @]
    /\ acquirers' = [a \in Acquirers |->
                        IF acquirers[a].pc = "select"
                        THEN [acquirers[a] EXCEPT !.slept = TRUE]
                        ELSE acquirers[a]]
    /\ UNCHANGED tried
    /\ UNCHANGED <<coreVars, simRun, recon, writer, published>>

\* A direct call of TokenBucket.TryAcquire.
CallTryAcquire(weight) ==
    LET r == TryAcquire(bucket, weight)
    IN  /\ bucket' = r.bucket
        /\ tried' = [weight |-> weight, ok |-> r.ok, calls |-> 1]
        /\ <<bucket, tried>>' # <<bucket, tried>>
        /\ UNCHANGED acquirers
        /\ UNCHANGED <<coreVars, simRun, recon, writer, published>>

\* TokenBucket.Acquire is called with a context not yet cancelled.
CallAcquire(a, weight) ==
    /\ acquirers[a].pc = "idle"
    /\ acquirers' = [acquirers EXCEPT ![a] =
                        [IdleAcquirer EXCEPT !.pc = "try", !.weight = weight]]
    /\ UNCHANGED <<bucket, tried>>
    /\ UNCHANGED <<coreVars, simRun, recon, writer, published>>

\* The caller's context is cancelled while Acquire runs.
CancelContext(a) ==
    /\ acquirers[a].pc \in {"try", "select"}
    /\ ~acquirers[a].cancelled
    /\ acquirers' = [acquirers EXCEPT ![a].cancelled = TRUE]
    /\ UNCHANGED <<bucket, tried>>
    /\ UNCHANGED <<coreVars, simRun, recon, writer, published>>

\* Acquire: "if tb.TryAcquire(weight) { return nil }", else on to the select.
AcquireTry(a) ==
    LET r == TryAcquire(bucket, acquirers[a].weight)
    IN  /\ acquirers[a].pc = "try"
        /\ bucket' = r.bucket
        /\ acquirers' = [acquirers EXCEPT ![a] =
               IF r.ok
               THEN [@ EXCEPT !.pc = "done", !.result = "nil"]
               ELSE [@ EXCEPT !.pc = "select", !.slept = FALSE]]
        /\ UNCHANGED tried
        /\ UNCHANGED <<coreVars, simRun, recon, writer, published>>

\* A select that has no case for the context.
ContextNever(a) == FALSE

\* "case <-ctx.Done()" of the select is ready.
ContextDone(a) == acquirers[a].cancelled

\* Acquire: the select takes "case <-ctx.Done(): return ctx.Err()".
AcquireSelectDone(a) ==
    /\ acquirers[a].pc = "select"
    /\ ContextDone(a)
    /\ acquirers' = [acquirers EXCEPT ![a].pc = "done",
                                      ![a].result = "ctx_err"]
    /\ UNCHANGED <<bucket, tried>>
    /\ UNCHANGED <<coreVars, simRun, recon, writer, published>>

\* Acquire: the select takes "case <-time.After(10 * time.Millisecond)" and
\* the loop goes round.
AcquireSelectTimer(a) ==
    /\ acquirers[a].pc = "select"
    /\ acquirers[a].slept
    /\ acquirers' = [acquirers EXCEPT ![a].pc = "try"]
    /\ UNCHANGED <<bucket, tried>>
    /\ UNCHANGED <<coreVars, simRun, recon, writer, published>>

\* Acquire has returned; its caller goes on.
AcquireReturn(a) ==
    /\ acquirers[a].pc = "done"
    /\ acquirers' = [acquirers EXCEPT ![a] = IdleAcquirer]
    /\ UNCHANGED <<bucket, tried>>
    /\ UNCHANGED <<coreVars, simRun, recon, writer, published>>

(***************************************************************************)
(* simulated.DefaultFillSimulator.  Two simulators are built with the same *)
(* arguments and fed the same orders and books.  A price a division makes  *)
(* is a decimal rounded to the library's precision, here PriceScale parts  *)
(* of a unit; every fill price is kept in those parts.                     *)
(***************************************************************************)
PriceScale == 100       \* parts of a price unit a quotient is rounded to
MaxSimSize == 3         \* largest order size fed to a simulator
MaxSimCalls == 2        \* SimulateFill calls per simulator
TakerFeeBps == 10       \* DefaultFillSimulator.takerFeeBps
MakerFeeBps == 5        \* DefaultFillSimulator.makerFeeBps

OrderTypeMarket == "MARKET"
OrderTypeLimit == "LIMIT"

\* rand.Rand: what Float64()*100 returns, whole percents, on the first and
\* on later calls of a generator, per seed.
RngTable == <<<<10, 60, 30>>, <<70, 20, 80>>>>
Seeds == 1..Len(RngTable)
RejectRates == {0, 50}

\* decimal.Decimal.Div on non-negative operands: the quotient rounded half
\* up to the precision.
DivRound(n, d) == (2 * n + d) \div (2 * d)

\* A walk that stops after the best level.
simulateBestLevelFill(levels, size) ==
    LET fillAtLevel == IF size < levels[1].size THEN size ELSE levels[1].size
    IN  [price |-> IF Len(levels) = 0 \/ fillAtLevel = 0 THEN 0
                   ELSE levels[1].price * PriceScale,
         size |-> IF Len(levels) = 0 THEN 0 ELSE fillAtLevel]

RECURSIVE WalkLevels(_, _, _, _, _)
\* The loop of simulateMarketFill from level i on.
WalkLevels(levels, i, remaining, totalCost, totalFilled) ==
    IF i > Len(levels) \/ remaining = 0
    THEN [cost |-> totalCost, filled |-> totalFilled]
    ELSE LET fillAtLevel == IF remaining < levels[i].size THEN remaining
                            ELSE levels[i].size
         IN  WalkLevels(levels, i + 1, remaining - fillAtLevel,
                        totalCost + fillAtLevel * levels[i].price,
                        totalFilled + fillAtLevel)

\* simulated.simulateMarketFill
simulateMarketFill(levels, size) ==
    LET w == WalkLevels(levels, 1, size, 0, 0)
    IN  IF w.filled = 0 THEN [price |-> 0, size |-> 0]
        ELSE [price |-> DivRound(w.cost * PriceScale, w.filled),
              size |-> w.filled]

NilBookPtr == [nil |-> TRUE, bids |-> <<>>, asks |-> <<>>]
Fill(status, price, size, fee) ==
    [status |-> status, price |-> price, size |-> size, fee |-> fee]
Rejection == Fill(OrderStatusRejected, 0, 0, 0)

\* SimulateFill past the reject injection.
FillAgainst(order, book) ==
    LET opposite == IF order.side = "BUY" THEN book.asks ELSE book.bids
        feeBps == IF order.type = OrderTypeMarket THEN TakerFeeBps
                  ELSE MakerFeeBps
        rests == /\ order.type = OrderTypeLimit
                 /\ IF order.side = "BUY"
                    THEN order.price < opposite[1].price
                    ELSE order.price > opposite[1].price
        f == simulateMarketFill(opposite, order.size)
    IN  IF book.nil THEN Rejection
        ELSE IF Len(opposite) = 0 THEN Rejection
        ELSE IF rests
        THEN Fill(OrderStatusAcknowledged, order.price * PriceScale, 0, 0)
        ELSE Fill(IF f.size < order.size THEN OrderStatusPartialFill
                  ELSE OrderStatusFilled,
                  f.price, f.size,
                  DivRound(f.price * f.size * feeBps, 10000))

\* DefaultFillSimulator.SimulateFill: the fill, and the generator after it.
SimulateFill(sim, order, book) ==
    LET draws == sim.rejectRatePct > 0
        injected == draws /\ RngTable[sim.seed][sim.drawn + 1] < sim.rejectRatePct
    IN  [fill |-> IF injected THEN Rejection ELSE FillAgainst(order, book),
         sim |-> IF draws THEN [sim EXCEPT !.drawn = @ + 1] ELSE sim]

\* NewFillSimulator: the generator is seeded with time.Now().UnixNano().
NewFillSimulator(rejectRatePct, seed) ==
    [rejectRatePct |-> rejectRatePct, seed |-> seed, drawn |-> 0]

NoOrderRequest == [type |-> "NONE", side |-> "NONE", size |-> 0, price |-> 0]
NewSimRun ==
    [built |-> FALSE, sims |-> <<>>, calls |-> 0, order |-> NoOrderRequest,
     book |-> NilBookPtr, fills |-> <<>>]

\* Two simulators are built with the same arguments, each at its own time.
NewFillSimulators(rejectRatePct) ==
    /\ ~simRun.built
    /\ \E seed1, seed2 \in Seeds :
           simRun' = [simRun EXCEPT
                         !.built = TRUE,
                         !.sims = <<NewFillSimulator(rejectRatePct, seed1),
                                    NewFillSimulator(rejectRatePct, seed2)>>]
    /\ UNCHANGED <<coreVars, bucketVars, recon, writer, published>>

\* Both simulators are given the same order and book.
SimulateFillBoth(order, book) ==
    LET r == [i \in 1..2 |-> SimulateFill(simRun.sims[i], order, book)]
    IN  /\ simRun.built
        /\ simRun.calls < MaxSimCalls
        /\ simRun' = [simRun EXCEPT
                          !.sims = [i \in 1..2 |-> r[i].sim],
                          !.calls = @ + 1,
                          !.order = order,
                          !.book = book,
                          !.fills = [i \in 1..2 |-> r[i].fill]]
        /\ UNCHANGED <<coreVars, bucketVars, recon, writer, published>>

(***************************************************************************)
(* portfolio.Reconciler with the mismatch callback main installs, on one   *)
(* asset's balance per venue.  A position is compared and overwritten by   *)
(* the same code in the function's second loop.                            *)
(***************************************************************************)
MismatchThresholdPermille == 5    \* Reconciler.threshold: 0.5 percent
NoBalance == -1                   \* Manager.GetBalance finds no balance

\* Totals the portfolio and the venue may hold: equal, 0.4 and 0.6 percent
\* apart.
Totals == {0, 1000, 1004, 1006}

NewRecon ==
    [internal |-> [v \in Venues |-> NoBalance],
     pc |-> "idle", venue |-> "", fetched |-> 0,
     detected |-> [v \in Venues |-> FALSE],
     alerts |-> {}]

\* reconcileVenue: "pct.GreaterThan(decimal.NewFromFloat(r.threshold))",
\* for an internal total that exists and is not zero.
Mismatch(internalTotal, venueTotal) ==
    /\ internalTotal # NoBalance
    /\ internalTotal # 0
    /\ Abs(venueTotal - internalTotal) * 1000
           > MismatchThresholdPermille * internalTotal

\* portfolio.Manager.UpdateBalance on a fill: the internal total moves.
PortfolioUpdate(venue, total) ==
    /\ recon.pc = "idle"
    /\ recon.internal[venue] # total
    /\ recon' = [recon EXCEPT !.internal[venue] = total]
    /\ UNCHANGED <<coreVars, bucketVars, simRun, writer, published>>

\* reconcileVenue up to the overwrite: the venue's balance is fetched and
\* compared; above the threshold the mismatch is logged and the callback of
\* main fires the P1 alert "reconciliation_mismatch".
ReconcileCompare(venue, venueTotal) ==
    LET mismatch == Mismatch(recon.internal[venue], venueTotal)
    IN  /\ recon.pc = "idle"
        /\ recon' = [recon EXCEPT
                         !.pc = "compared",
                         !.venue = venue,
                         !.fetched = venueTotal,
                         !.detected[venue] = mismatch,
                         !.alerts = IF mismatch THEN @ \cup {venue} ELSE @]
        /\ UNCHANGED <<coreVars, bucketVars, simRun, writer, published>>

\* reconcileVenue: r.manager.UpdateBalance with the venue's values.
ReconcileOverwrite ==
    /\ recon.pc = "compared"
    /\ recon' = [recon EXCEPT
                     !.pc = "idle",
                     !.internal[recon.venue] = recon.fetched,
                     !.detected[recon.venue] = FALSE]
    /\ UNCHANGED <<coreVars, bucketVars, simRun, writer, published>>

(***************************************************************************)
(* persistence.AsyncWriter, the checkpointer goroutine of main that hands  *)
(* it risk checkpoints, callers that hand it other writes, and the         *)
(* shutdown of main.  A request is the number it was handed over as.       *)
(***************************************************************************)
RiskChCap == 1          \* cap(AsyncWriter.riskCh), 100 in NewAsyncWriter
WriteChCap == 1         \* cap(AsyncWriter.writeCh), the bufferSize
MaxRequests == 3        \* write requests handed over

WriteTypeRiskCheckpoint == "risk_checkpoint"
WriteTypeTrade == "trade"
Requests == 1..MaxRequests

\* NewAsyncWriter and Run: both channels empty, both processors running.
NewWriter ==
    [state |-> "running", riskCh |-> <<>>, writeCh |-> <<>>,
     kind |-> [r \in Requests |-> "none"], next |-> 1, blocked |-> 0,
     handled |-> {}, dropped |-> {}]

\* AsyncWriter.Write of a risk checkpoint: "w.riskCh <- req".  The send
\* blocks while the channel is full and panics on a closed channel.
sendRisk(w, r) ==
    IF w.state # "running" THEN [w EXCEPT !.state = "panicked"]
    ELSE IF Len(w.riskCh) < RiskChCap
    THEN [w EXCEPT !.riskCh = Append(@, r)]
    ELSE [w EXCEPT !.blocked = r]

\* AsyncWriter.Write of another kind: the select with a default.
sendOrDrop(w, r) ==
    IF w.state # "running" THEN [w EXCEPT !.state = "panicked"]
    ELSE IF Len(w.writeCh) < WriteChCap
    THEN [w EXCEPT !.writeCh = Append(@, r)]
    ELSE [w EXCEPT !.dropped = @ \cup {r}]

\* runCheckpointer: writer.Write of a risk checkpoint.  After cancel() the
\* goroutine may still take a tick, so the call may follow Stop.
WriteRiskCheckpoint ==
    /\ writer.state \in {"running", "stopped"}
    /\ writer.blocked = 0
    /\ writer.next <= MaxRequests
    /\ writer' = sendRisk([writer EXCEPT
                              !.kind[writer.next] = WriteTypeRiskCheckpoint,
                              !.next = @ + 1],
                          writer.next)
    /\ UNCHANGED <<coreVars, bucketVars, simRun, recon, published>>

\* The blocked send of the checkpointer goes through.
WriteUnblocked ==
    /\ writer.state = "running"
    /\ writer.blocked # 0
    /\ Len(writer.riskCh) < RiskChCap
    /\ writer' = [writer EXCEPT !.riskCh = Append(@, writer.blocked),
                                !.blocked = 0]
    /\ UNCHANGED <<coreVars, bucketVars, simRun, recon, published>>

\* AsyncWriter.Write of a write of another kind.
WriteOther ==
    /\ writer.state \in {"running", "stopped"}
    /\ writer.next <= MaxRequests
    /\ writer' = sendOrDrop([writer EXCEPT
                                !.kind[writer.next] = WriteTypeTrade,
                                !.next = @ + 1],
                            writer.next)
    /\ UNCHANGED <<coreVars, bucketVars, simRun, recon, published>>

\* AsyncWriter.processRiskCheckpoints: one round of the loop; a closed
\* channel still yields what it holds.
ProcessRiskCheckpoints ==
    /\ writer.state \in {"running", "stopped"}
    /\ Len(writer.riskCh) > 0
    /\ writer' = [writer EXCEPT !.riskCh = Tail(@),
                                !.handled = @ \cup {Head(writer.riskCh)}]
    /\ UNCHANGED <<coreVars, bucketVars, simRun, recon, published>>

\* AsyncWriter.processWrites: one round of the loop.
ProcessWrites ==
    /\ writer.state \in {"running", "stopped"}
    /\ Len(writer.writeCh) > 0
    /\ writer' = [writer EXCEPT !.writeCh = Tail(@),
                                !.handled = @ \cup {Head(writer.writeCh)}]
    /\ UNCHANGED <<coreVars, bucketVars, simRun, recon, published>>

\* AsyncWriter.Stop: the channels are closed, nothing is waited for.  A
\* sender blocked on riskCh panics.
StopWriter ==
    /\ writer.state = "running"
    /\ writer' = [writer EXCEPT
                      !.state = IF writer.blocked # 0 THEN "panicked"
                                ELSE "stopped"]
    /\ UNCHANGED <<coreVars, bucketVars, simRun, recon, published>>

\* main returns after Stop: the process and its goroutines end.
ExitAfterStop ==
    /\ writer.state = "stopped"
    /\ writer' = [writer EXCEPT !.state = "exited"]
    /\ UNCHANGED <<coreVars, bucketVars, simRun, recon, published>>

(***************************************************************************)
(* strategy.TriArbModule on its first default path and BasisArbModule on   *)
(* the asset BTC, both fed every order-book snapshot of one venue.  Edges  *)
(* are kept in parts of a basis point, PricePrecision parts to one; leg    *)
(* sizes in PriceScale parts of a unit.  In these bounds no product leaves *)
(* the width of FixedPrice.                                                *)
(***************************************************************************)
PricePrecision == 10000     \* domain.PricePrecision, parts of a price unit
MinEdgeBps == 18            \* TriArbModule.minEdgeBps
MinNetEdgeBps == 22         \* BasisArbModule.minNetEdgeBps
HoldingHorizonH == 168      \* BasisArbModule.holdingHorizonH
FundingWindow == 2          \* rates estimateFundingCapture weighs, 12 there
MaxFundingRates == 2        \* rates OnFundingRateUpdate keeps, 100 there
SizeSentinel == 999999999   \* buildSignal: minSize before the first leg

TriPath ==
    <<[symbol |-> "BTC/USDT", side |-> "BUY"],
      [symbol |-> "ETH/BTC", side |-> "BUY"],
      [symbol |-> "ETH/USDT", side |-> "SELL"]>>
SpotSymbol == "BTC/USDT"
PerpSymbol == "BTCUSDT"
StratSymbols == {TriPath[i].symbol : i \in 1..3} \cup {SpotSymbol, PerpSymbol}

NoSnap == [exists |-> FALSE, bids |-> <<>>, asks |-> <<>>]
NoSignals == [books |-> [sym \in StratSymbols |-> NoSnap], rates |-> <<>>,
              signals |-> {}]

\* domain.ToFixed, FixedPrice.Mul, FixedPrice.Div, domain.FixedFromBps
ToFixed(d) == d * PricePrecision
FixedMul(f, other) == (f * other) \div PricePrecision
FixedDiv(f, other) == IF other = 0 THEN 0 ELSE (f * PricePrecision) \div other
FixedFromBps(bps) == (bps * PricePrecision) \div 10000

\* OrderBookSnapshot.MidPrice, doubled
MidPrice2(book) == book.bids[1].price + book.asks[1].price
HasMid(book) == Len(book.bids) > 0 /\ Len(book.asks) > 0

RECURSIVE ImpliedRate(_, _, _)
\* The loop of computeEdge from leg i on; -1 once a leg has no price.
ImpliedRate(snaps, i, rate) ==
    IF i > 3 THEN rate
    ELSE LET book == snaps[TriPath[i].symbol]
         IN  IF TriPath[i].side = "BUY"
             THEN IF Len(book.asks) = 0 \/ ToFixed(book.asks[1].price) = 0
                  THEN -1
                  ELSE ImpliedRate(snaps, i + 1,
                                   FixedDiv(rate, ToFixed(book.asks[1].price)))
             ELSE IF Len(book.bids) = 0 THEN -1
                  ELSE ImpliedRate(snaps, i + 1,
                                   FixedMul(rate, ToFixed(book.bids[1].price)))

\* TriArbModule.computeEdge
computeEdge(snaps) ==
    LET impliedRate == ImpliedRate(snaps, 1, ToFixed(1))
    IN  IF impliedRate > ToFixed(1) THEN impliedRate - ToFixed(1) ELSE 0

\* The level buildSignal reads for leg i.
TopFor(snaps, i) ==
    LET book == snaps[TriPath[i].symbol]
    IN  IF TriPath[i].side = "BUY" THEN book.asks ELSE book.bids

RECURSIVE MinNotional(_, _, _)
MinNotional(snaps, i, minSize) ==
    IF i > 3 THEN minSize
    ELSE LET notional == TopFor(snaps, i)[1].price * TopFor(snaps, i)[1].size
         IN  MinNotional(snaps, i + 1,
                         IF notional < minSize THEN notional ELSE minSize)

\* A buildSignal that returns the signal whatever its net edge.
NetEdgeAny(netEdge) == TRUE

\* buildSignal: "if netEdge.LessThanOrEqual(decimal.Zero) { return nil }"
NetEdgePasses(netEdge) == ~(netEdge <= 0)

\* TriArbModule.buildSignal; the set of the signal, empty for nil.
buildSignal(snaps, edge, costBps) ==
    LET minSize == MinNotional(snaps, 1, SizeSentinel)
        legs == [i \in 1..3 |->
                    LET top == TopFor(snaps, i)[1]
                    IN  [symbol |-> TriPath[i].symbol,
                         side |-> TriPath[i].side,
                         price |-> top.price,
                         size |-> IF top.price > 0
                                  THEN DivRound(minSize * PriceScale, top.price)
                                  ELSE top.size * PriceScale]]
        netEdge == edge * 10000 - costBps * PricePrecision
    IN  IF \E i \in 1..3 : Len(TopFor(snaps, i)) = 0 THEN {}
        ELSE IF ~NetEdgePasses(netEdge) THEN {}
        ELSE {[strategy |-> StrategyTriArb, legs |-> legs, edge |-> netEdge]}

\* TriArbModule.evaluate on the one path, after a snapshot of symbol.
TriArbEvaluate(snaps, symbol, costBps) ==
    IF \A i \in 1..3 : TriPath[i].symbol # symbol THEN {}
    ELSE IF \E i \in 1..3 : ~snaps[TriPath[i].symbol].exists THEN {}
    ELSE IF computeEdge(snaps) > FixedFromBps(MinEdgeBps)
    THEN buildSignal(snaps, computeEdge(snaps), costBps)
    ELSE {}

RECURSIVE WeightedSum(_, _, _)
\* estimateFundingCapture: the sum of rate * weight over rates[first..].
WeightedSum(rates, first, i) ==
    IF i > Len(rates) THEN 0
    ELSE rates[i] * (i - first + 1) + WeightedSum(rates, first, i + 1)

\* BasisArbModule.estimateFundingCapture, its absolute value in parts of a
\* basis point; the rates are in basis points.
FundingCaptureAbs(rates) ==
    LET n == IF FundingWindow > Len(rates) THEN Len(rates) ELSE FundingWindow
        first == Len(rates) - n + 1
        totalWeight == (n * (n + 1)) \div 2
    IN  IF Len(rates) = 0 THEN 0
        ELSE DivRound(Abs(WeightedSum(rates, first, first))
                          * PricePrecision * HoldingHorizonH,
                      totalWeight * 8)

\* BasisArbModule.evaluate for the asset; the set of the signal published.
BasisArbEvaluate(snaps, rates, costBps) ==
    LET spotBook == snaps[SpotSymbol]
        perpBook == snaps[PerpSymbol]
        spotMid2 == MidPrice2(spotBook)
        perpMid2 == MidPrice2(perpBook)
        basisAbs == DivRound(Abs(perpMid2 - spotMid2) * 10000 * PricePrecision,
                             spotMid2)
        netEdgeBps == basisAbs + FundingCaptureAbs(rates)
                          - costBps * PricePrecision
        spotAsk == spotBook.asks[1]
        perpBid == perpBook.bids[1]
        size == IF spotAsk.size < perpBid.size THEN spotAsk.size
                ELSE perpBid.size
        buysSpot == perpMid2 > spotMid2
    IN  IF ~spotBook.exists \/ ~perpBook.exists THEN {}
        ELSE IF ~HasMid(spotBook) \/ ~HasMid(perpBook) THEN {}
        ELSE IF spotMid2 = 0 THEN {}
        ELSE IF ~(netEdgeBps >= MinNetEdgeBps * PricePrecision) THEN {}
        ELSE IF size = 0 THEN {}
        ELSE {[strategy |-> StrategyBasisArb,
               legs |-> <<[symbol |-> SpotSymbol,
                           side |-> IF buysSpot THEN "BUY" ELSE "SELL",
                           price |-> spotAsk.price,
                           size |-> size * PriceScale],
                          [symbol |-> PerpSymbol,
                           side |-> IF buysSpot THEN "SELL" ELSE "BUY",
                           price |-> perpBid.price,
                           size |-> size * PriceScale]>>,
               edge |-> netEdgeBps]}

\* The strategy engine hands a snapshot to both modules: each stores it,
\* evaluates and publishes; costBps is what the cost model estimates.
OnOrderBookUpdate(symbol, snap, costBps) ==
    LET stored == [published.books EXCEPT ![symbol] = snap]
    IN  /\ published' =
               [published EXCEPT
                   !.books = stored,
                   !.signals =
                       TriArbEvaluate(stored, symbol, costBps)
                           \cup BasisArbEvaluate(stored, published.rates,
                                                 costBps)]
        /\ published' # published
        /\ UNCHANGED <<coreVars, bucketVars, simRun, recon, writer>>

\* BasisArbModule.OnFundingRateUpdate
OnFundingRateUpdate(rate) ==
    LET appended == Append(published.rates, rate)
    IN  /\ published' =
               [published EXCEPT
                   !.rates = IF Len(appended) > MaxFundingRates
                             THEN SubSeq(appended,
                                         Len(appended) - MaxFundingRates + 1,
                                         Len(appended))
                             ELSE appended,
                   !.signals = {}]
        /\ published' # published
        /\ UNCHANGED <<coreVars, bucketVars, simRun, recon, writer>>

(***************************************************************************)
(* eventbus.EventBus at shutdown, for the execution reports.  A channel   *)
(* is its buffer and whether close(ch) was called on it; a send on a       *)
(* closed channel and a second close of a channel panic, and a panic       *)
(* nothing recovers ends the process.                                      *)
(***************************************************************************)
ReportStatuses == {"completed", "aborted"}

NoFault == "none"
FaultSendOnClosed == "send on closed channel"
FaultCloseOfClosed == "close of closed channel"

\* eventbus.New: no subscriber yet.
NewReportBus == [subs |-> <<>>, fault |-> NoFault]

NewChannel == [buf |-> <<>>, closed |-> FALSE]

\* The loop of PublishExecutionReport from channel i on: "select { case ch
\* <- report: default: }" sends if the buffer has room, drops if it is
\* full, and panics if the channel is closed.
RECURSIVE SendToEach(_, _, _)
SendToEach(subs, i, report) ==
    IF i > Len(subs) THEN [subs |-> subs, fault |-> NoFault]
    ELSE IF subs[i].closed THEN [subs |-> subs, fault |-> FaultSendOnClosed]
    ELSE IF Len(subs[i].buf) >= BufferSize
    THEN SendToEach(subs, i + 1, report)
    ELSE SendToEach([subs EXCEPT ![i].buf = Append(@, report)], i + 1, report)

\* The loop of Close over execReportSubs from channel i on.
RECURSIVE CloseEach(_, _)
CloseEach(subs, i) ==
    IF i > Len(subs) THEN [subs |-> subs, fault |-> NoFault]
    ELSE IF subs[i].closed THEN [subs |-> subs, fault |-> FaultCloseOfClosed]
    ELSE CloseEach([subs EXCEPT ![i].closed = TRUE], i + 1)

BusRuns == reportBus.fault = NoFault

\* EventBus.SubscribeExecutionReport
SubscribeExecutionReport ==
    /\ BusRuns
    /\ Len(reportBus.subs) < MaxSubscribers
    /\ reportBus' = [reportBus EXCEPT !.subs = Append(@, NewChannel)]
    /\ UNCHANGED <<omVars, riskVars, osVars, mdVars, sideVars>>

\* EventBus.PublishExecutionReport, as Engine.publishReport calls it.
PublishExecutionReport(report) ==
    /\ BusRuns
    /\ reportBus' = SendToEach(reportBus.subs, 1, report)
    /\ UNCHANGED <<omVars, riskVars, osVars, mdVars, sideVars>>

\* A subscriber receives the next report of its channel.
ReceiveExecutionReport(s) ==
    /\ BusRuns
    /\ reportBus.subs[s].buf # <<>>
    /\ reportBus' = [reportBus EXCEPT !.subs[s].buf = Tail(@)]
    /\ UNCHANGED <<omVars, riskVars, osVars, mdVars, sideVars>>

\* EventBus.Close, as main calls it at shutdown.
CloseBus ==
    /\ BusRuns
    /\ reportBus' = CloseEach(reportBus.subs, 1)
    /\ UNCHANGED <<omVars, riskVars, osVars, mdVars, sideVars>>

(***************************************************************************)
(* The state after construction (main: NewService, NewManager of risk and  *)
(* order, NewEngine), given what the kill-switch file holds.               *)
(***************************************************************************)
Constructed(file) ==
    /\ orders = [id \in OrderIds |-> NoOrder]
    /\ idempotencyMap = [k \in AllKeys |-> NoId]
    /\ proc = [p \in Procs |-> IdleProc]
    /\ cycle = [id \in SigIds |-> NoCycle]
    /\ mode = RiskModeNormal
    /\ positions = [k \in PositionKeys |-> 0]
    /\ venueNotionals = [v \in Venues |-> 0]
    /\ openOrderCounts = [global |-> 0,
                          perVenue |-> [v \in Venues |-> 0],
                          perSymbol |-> [sym \in Symbols |-> 0]]
    /\ pnl = [realized |-> 0, unrealized |-> 0, newDay |-> FALSE]
    /\ killSwitch = loadState(file)
    /\ ksFile = file
    /\ onKillSwitch = FALSE
    /\ pendingCallbacks = 0
    /\ mdLastUpdate = [k \in BookKeys |-> "never"]
    /\ mdAge = [k \in BookKeys |-> NoAge]
    /\ lastValidation = NoValidation
    /\ orderStateSubs = <<>>
    /\ orderBookSubs = <<>>
    /\ books = [k \in BookKeys |-> NoBook]
    /\ held = <<>>
    /\ bucket = NewTokenBucket
    /\ tried = NoTry
    /\ acquirers = [a \in Acquirers |-> IdleAcquirer]
    /\ simRun = NewSimRun
    /\ recon = NewRecon
    /\ writer = NewWriter
    /\ published = NoSignals
    /\ reportBus = NewReportBus

\* The process exits and is started again: every component is constructed
\* anew, the kill-switch file is what the old process left.
Restart ==
    /\ restarts < MaxRestarts
    /\ restarts' = restarts + 1
    /\ orders' = [id \in OrderIds |-> NoOrder]
    /\ idempotencyMap' = [k \in AllKeys |-> NoId]
    /\ proc' = [p \in Procs |-> IdleProc]
    /\ cycle' = [id \in SigIds |-> NoCycle]
    /\ mode' = RiskModeNormal
    /\ positions' = [k \in PositionKeys |-> 0]
    /\ venueNotionals' = [v \in Venues |-> 0]
    /\ openOrderCounts' = [global |-> 0,
                           perVenue |-> [v \in Venues |-> 0],
                           perSymbol |-> [sym \in Symbols |-> 0]]
    /\ pnl' = [realized |-> 0, unrealized |-> 0, newDay |-> FALSE]
    /\ killSwitch' = loadState(ksFile)
    /\ onKillSwitch' = FALSE
    /\ pendingCallbacks' = 0
    /\ mdLastUpdate' = [k \in BookKeys |-> "never"]
    /\ mdAge' = [k \in BookKeys |-> NoAge]
    /\ lastValidation' = NoValidation
    /\ orderStateSubs' = <<>>
    /\ orderBookSubs' = <<>>
    /\ books' = [k \in BookKeys |-> NoBook]
    /\ held' = <<>>
    /\ bucket' = NewTokenBucket
    /\ tried' = NoTry
    /\ acquirers' = [a \in Acquirers |-> IdleAcquirer]
    /\ simRun' = NewSimRun
    /\ recon' = NewRecon
    /\ writer' = NewWriter
    /\ published' = NoSignals
    /\ reportBus' = NewReportBus
    /\ UNCHANGED <<ksFile, nextOrderId, placeCalls, applied>>

Histories ==
    /\ nextOrderId = 1
    /\ placeCalls = [k \in AllKeys |-> 0]
    /\ restarts = 0
    /\ applied = [id \in OrderIds |-> 0]

\* A first start: no kill-switch file yet.
Init == Histories /\ Constructed(FileAbsent)

\* A start on whatever an earlier run, or anything else, left in the file.
KsFiles ==
    {FileAbsent, FileCorrupt,
     persistState([active |-> TRUE, reason |-> "manual"]),
     persistState([active |-> FALSE, reason |-> ""])}
InitAnyFile == Histories /\ \E file \in KsFiles : Constructed(file)

(***************************************************************************)
(* The order manager under direct concurrent calls.                        *)
(***************************************************************************)
NextOrder ==
    \/ \E p \in Procs : CallSubmitOrder(p)
    \/ \E p \in Procs : SubmitOrderCreated(p)
    \/ \E p \in Procs : SubmitOrderGateway(p)
    \/ \E p \in Procs : SubmitOrderPublish(p)
    \/ \E p \in Procs : SubmitOrderPlace(p)
    \/ \E p \in Procs : SubmitOrderResult(p)
    \/ \E p \in Procs : CallCancelOrder(p)
    \/ \E p \in Procs : CancelOrderVenue(p)
    \/ \E p \in Procs : CancelOrderApply(p)
    \/ CallUpdateOrderFill

SpecOrder == Init /\ [][NextOrder]_vars

\* The same callers, and callers of CancelAllOrders.
NextOrderAll ==
    \/ NextOrder
    \/ \E p \in Procs : CallCancelAllOrders(p)
    \/ \E p \in Procs : CancelAllNext(p)

SpecOrderAll == Init /\ [][NextOrderAll]_vars

(***************************************************************************)
(* One order, submitted, cancelled and filled by concurrent callers, and   *)
(* one subscriber of its state changes.                                    *)
(***************************************************************************)
MaxTransitions == 3    \* no new call once an order had so many transitions

TransitionsLeft == \A id \in OrderIds : applied[id] < MaxTransitions

NextEvents ==
    \/ orderStateSubs = <<>> /\ SubscribeOrderState
    \/ \E s \in 1..Len(orderStateSubs) : ReceiveOrderState(s)
    \/ \E p \in Procs : nextOrderId = 1 /\ CallSubmitOrder(p)
    \/ \E p \in Procs : SubmitOrderCreated(p)
    \/ \E p \in Procs : SubmitOrderGateway(p)
    \/ \E p \in Procs : SubmitOrderPlace(p)
    \/ \E p \in Procs : SubmitOrderResult(p)
    \/ \E p \in Procs : SubmitOrderPublish(p)
    \/ \E p \in Procs : TransitionsLeft /\ CallCancelOrder(p)
    \/ \E p \in Procs : CancelOrderVenue(p)
    \/ \E p \in Procs : CancelOrderApply(p)
    \/ TransitionsLeft /\ CallUpdateOrderFill

SpecEvents == Init /\ [][NextEvents]_vars

(***************************************************************************)
(* The risk manager fed by fills, order state changes and market data,    *)
(* and asked to validate signals.                                          *)
(***************************************************************************)
FillBTCBuy ==
    [venue |-> "nobitex", symbol |-> SymBTCSpot, side |-> "BUY",
     filled |-> 1, avgPrice |-> 1]
FillBTCSell ==
    [venue |-> "nobitex", symbol |-> SymBTCPerp, side |-> "SELL",
     filled |-> 1, avgPrice |-> 1]
FillInputs == {FillBTCBuy, FillBTCSell}
PnLInputs == {-3, -2, 0, 1}
LossInputs == {-3, 0}
ChangeInputs ==
    {[venue |-> "nobitex", symbol |-> sym, prev |-> t[1], new |-> t[2]] :
        sym \in {SymBTCSpot},
        t \in {<<OrderStatusPendingNew, OrderStatusSubmitted>>,
               <<OrderStatusSubmitted, OrderStatusFilled>>}}
FedBooks == {<<"nobitex", sym>> : sym \in Symbols}
AgingBook == <<"nobitex", SymBTCSpot>>

NextRisk ==
    \/ \E order \in FillInputs, amount \in LossInputs : OnOrderFill(order, amount)
    \/ \E change \in ChangeInputs : OnOrderStateChange(change)
    \/ \E key \in FedBooks : MarketDataUpdate(key)
    \/ MarketDataExpires(AgingBook)
    \/ ActivateKillSwitch("manual")
    \/ DeactivateKillSwitch
    \/ \E signal \in Signals : ValidateSignalCall(signal)

SpecRisk == Init /\ [][NextRisk]_vars

(***************************************************************************)
(* The kill switch over the life of the deployment: PnL updates, manual   *)
(* activation and deactivation, the registered callback, restarts.        *)
(***************************************************************************)
NextKillSwitch ==
    \/ SetKillSwitchCallback
    \/ \E amount \in PnLInputs : OnOrderFill(FillBTCBuy, amount)
    \/ PeriodicCheck
    \/ MidnightPasses
    \/ ActivateKillSwitch("manual")
    \/ DeactivateKillSwitch
    \/ \E p \in Procs : KillSwitchHandler(p)
    \/ \E p \in Procs : CancelAllNext(p)
    \/ MarketDataUpdate(AgingBook)
    \/ ValidateSignalCall(Sig1)
    \/ Restart

SpecKillSwitch == InitAnyFile /\ [][NextKillSwitch]_vars

(***************************************************************************)
(* The execution engine: signals arrive, each is executed by a goroutine. *)
(***************************************************************************)
Next ==
    \/ \E p \in Procs, signal \in EngineSignals : ExecuteSignal(p, signal)
    \/ \E p \in Procs : EngineLeg(p)
    \/ \E p \in Procs : SubmitOrderCreated(p)
    \/ \E p \in Procs : SubmitOrderGateway(p)
    \/ \E p \in Procs : SubmitOrderPublish(p)
    \/ \E p \in Procs : SubmitOrderPlace(p)
    \/ \E p \in Procs : SubmitOrderResult(p)
    \/ \E p \in Procs : SubmitWithRetryResult(p)
    \/ \E p \in Procs : SubmitWithRetryCancelled(p)
    \/ \E p \in Procs : SubmitWithRetryAgain(p)
    \/ \E p \in Procs : CycleDeadline(p)
    \/ \E p \in Procs : AbortLoop(p)
    \/ \E p \in Procs : CancelOrderVenue(p)
    \/ \E p \in Procs : CancelOrderApply(p)
    \/ \E key \in FedBooks : MarketDataUpdate(key)
    \/ ActivateKillSwitch("manual")

Spec == Init /\ [][Next]_vars

(***************************************************************************)
(* The market-data service fed with snapshots and deltas of one book.  A   *)
(* snapshot is an OrderBookSnapshot as its type is documented: bids sorted *)
(* descending, asks ascending, one level per price, no level of size zero. *)
(* A delta carries any levels, a level of size zero to remove a price.     *)
(***************************************************************************)
LevelSeqs(sizes, n) ==
    UNION {[1..k -> [price : Prices, size : sizes]] : k \in 0..n}

Sorted(levels, descending) ==
    \A i, j \in 1..Len(levels) :
        i < j => IF descending THEN levels[i].price > levels[j].price
                 ELSE levels[i].price < levels[j].price

SnapshotLevels(descending) ==
    {l \in LevelSeqs(1..MaxLevelSize, MaxPrice) : Sorted(l, descending)}

SnapshotInputs(key) ==
    [key : {key}, bids : SnapshotLevels(TRUE), asks : SnapshotLevels(FALSE),
     sequence : 1..MaxSequence]

DeltaInputs(key) ==
    [key : {key}, bids : LevelSeqs(0..MaxLevelSize, MaxDeltaLevels),
     asks : LevelSeqs(0..MaxLevelSize, MaxDeltaLevels),
     sequence : 1..MaxSequence]

NextBook ==
    \/ \E snap \in SnapshotInputs(AgingBook) : UpdateOrderBook(snap)
    \/ \E delta \in DeltaInputs(AgingBook) : ApplyDelta(delta)
    \/ MarketDataExpires(AgingBook)

SpecBook == Init /\ [][NextBook]_vars

(***************************************************************************)
(* The same feed, on the bid side only, with a subscriber of the book      *)
(* events and a caller of GetOrderBook.                                    *)
(***************************************************************************)
BidSnapshots(key) ==
    {snap \in SnapshotInputs(key) : snap.asks = <<>> /\ snap.sequence = 1}
BidDeltas(key) ==
    {delta \in DeltaInputs(key) : delta.asks = <<>> /\ delta.sequence = 1}

NextSnapshots ==
    \/ \E snap \in BidSnapshots(AgingBook) : UpdateOrderBook(snap)
    \/ \E delta \in BidDeltas(AgingBook) : ApplyDelta(delta)
    \/ GetOrderBook(AgingBook)
    \/ ReleaseSnapshot
    \/ orderBookSubs = <<>> /\ SubscribeOrderBook
    \/ \E s \in 1..Len(orderBookSubs) : ReceiveOrderBook(s)

SpecSnapshots == Init /\ [][NextSnapshots]_vars

(***************************************************************************)
(* The event bus alone: subscribers of the book events and direct calls of *)
(* PublishOrderBook with snapshots of empty books.                         *)
(***************************************************************************)
NilRef == [shared |-> FALSE, len |-> 0, levels |-> <<>>]

BusSnapshots ==
    [key : {AgingBook}, bids : {NilRef}, asks : {NilRef},
     sequence : 1..MaxSequence]

NextBus ==
    \/ SubscribeOrderBook
    \/ \E s \in 1..Len(orderBookSubs) : ReceiveOrderBook(s)
    \/ \E snap \in BusSnapshots : CallPublishOrderBook(snap)

SpecBus == Init /\ [][NextBus]_vars

(***************************************************************************)
(* The freshness clock of the market-data service: updates of the fed      *)
(* books, and time passing between them.                                   *)
(***************************************************************************)
(* The kill switch trips while cycles run: the engine executes signals,    *)
(* a loss breaches the daily cap, and the callback main registered runs    *)
(* Engine.KillSwitchHandler.  Every venue cancel succeeds, and no leg is    *)
(* begun while the callback is pending or running: the submissions that    *)
(* meet the cancel-all are those in flight when it starts.                 *)
(***************************************************************************)
BreachLoss == -(DailyLossCapUSDT + Overshoot)

NextCancelAll ==
    \/ SetKillSwitchCallback
    \/ \E key \in FedBooks : mdAge[key] = NoAge /\ MarketDataUpdate(key)
    \/ \E signal \in EngineSignals : ExecuteSignal(1, signal)
    \/ pendingCallbacks = 0 /\ proc[2].pc = "idle" /\ EngineLeg(1)
    \/ \E p \in Procs : SubmitOrderCreated(p)
    \/ \E p \in Procs : SubmitOrderGateway(p)
    \/ \E p \in Procs : SubmitOrderPlace(p)
    \/ \E p \in Procs : SubmitOrderResult(p)
    \/ \E p \in Procs : SubmitOrderPublish(p)
    \/ \E p \in Procs : SubmitWithRetryResult(p)
    \/ \E p \in Procs : SubmitWithRetryCancelled(p)
    \/ \E p \in Procs : SubmitWithRetryAgain(p)
    \/ \E p \in Procs : CycleDeadline(p)
    \/ \E p \in Procs : AbortLoop(p)
    \/ onKillSwitch /\ OnOrderFill(FillBTCBuy, BreachLoss)
    \/ KillSwitchHandler(2)
    \/ CancelAllNext(2)
    \/ \E p \in Procs : CancelOrderVenueAnswer(p, TRUE)
    \/ \E p \in Procs : CancelOrderApply(p)

SpecCancelAll == Init /\ [][NextCancelAll]_vars

(***************************************************************************)
(* Execution cycles of one goroutine after another, each with its          *)
(* deadline.  The Go scheduler runs a goroutine that can take a step, and  *)
(* every venue call returns: a step of the goroutine that stays possible   *)
(* is taken.  Whether and when a deadline passes is left open.             *)
(***************************************************************************)
EngineStep(p) ==
    \/ EngineLeg(p)
    \/ SubmitOrderCreated(p)
    \/ SubmitOrderGateway(p)
    \/ SubmitOrderPlace(p)
    \/ SubmitOrderResult(p)
    \/ SubmitOrderPublish(p)
    \/ SubmitWithRetryResult(p)
    \/ SubmitWithRetryCancelled(p)
    \/ SubmitWithRetryAgain(p)
    \/ AbortLoop(p)
    \/ CancelOrderVenue(p)
    \/ CancelOrderApply(p)

NextCycles ==
    \/ \E key \in FedBooks : mdAge[key] = NoAge /\ MarketDataUpdate(key)
    \/ \E signal \in EngineSignals : ExecuteSignal(1, signal)
    \/ EngineStep(1)
    \/ CycleDeadline(1)

SpecCyclesFair == Init /\ [][NextCycles]_vars /\ WF_vars(EngineStep(1))

(***************************************************************************)
(* The risk manager fed with the order manager's state changes: it         *)
(* subscribes before the first order, the order manager publishes only    *)
(* while the channel has room, so that no event is dropped, and a cancel   *)
(* is called only while no submission is under way.                        *)
(***************************************************************************)
ChannelHasRoom ==
    /\ Len(orderStateSubs) = 1
    /\ Len(orderStateSubs[1]) < BufferSize

\* No call of SubmitOrder is under way: a cancel then meets no submission.
NoSubmitInFlight ==
    \A p \in Procs :
        proc[p].pc \notin {"so_created", "so_gateway", "so_place",
                           "so_result", "so_publish"}

\* An order that went through its submission may still be cancelled twice.
CancelsLeft == \A id \in OrderIds : applied[id] < MaxTransitions + 2

NextCounts ==
    \/ orderStateSubs = <<>> /\ SubscribeOrderState
    \/ \E s \in 1..Len(orderStateSubs) : RiskReceiveOrderState(s)
    \/ \E p \in Procs : ChannelHasRoom /\ CallSubmitOrder(p)
    \/ \E p \in Procs : ChannelHasRoom /\ SubmitOrderCreated(p)
    \/ \E p \in Procs : ChannelHasRoom /\ SubmitOrderGateway(p)
    \/ \E p \in Procs : SubmitOrderPlace(p)
    \/ \E p \in Procs : ChannelHasRoom /\ SubmitOrderResult(p)
    \/ \E p \in Procs : ChannelHasRoom /\ SubmitOrderPublish(p)
    \/ \E p \in Procs : NoSubmitInFlight /\ CancelsLeft /\ CallCancelOrder(p)
    \/ \E p \in Procs : CancelOrderVenue(p)
    \/ \E p \in Procs : ChannelHasRoom /\ CancelOrderApply(p)

SpecCounts == Init /\ [][NextCounts]_vars

(***************************************************************************)
(* The order manager under direct calls of one caller after another, and   *)
(* the periodic cleanup of its terminal orders.                            *)
(***************************************************************************)
NextCleanup ==
    \/ CallSubmitOrder(1)
    \/ SubmitOrderCreated(1)
    \/ SubmitOrderGateway(1)
    \/ SubmitOrderPlace(1)
    \/ SubmitOrderResult(1)
    \/ SubmitOrderPublish(1)
    \/ CancelsLeft /\ CallCancelOrder(1)
    \/ CancelOrderVenue(1)
    \/ CancelOrderApply(1)
    \/ CallCleanupStaleOrders

SpecCleanup == Init /\ [][NextCleanup]_vars

(***************************************************************************)
(* The bus at shutdown: main calls Close while the goroutines of the       *)
(* execution engine still publish their reports.                           *)
(***************************************************************************)
NextClose ==
    \/ SubscribeExecutionReport
    \/ \E report \in ReportStatuses : PublishExecutionReport(report)
    \/ \E s \in 1..Len(reportBus.subs) : ReceiveExecutionReport(s)
    \/ CloseBus

SpecClose == Init /\ [][NextClose]_vars

(***************************************************************************)
NextFreshness ==
    \/ \E key \in FedBooks : MarketDataUpdate(key)
    \/ TimePasses

SpecFreshness == Init /\ [][NextFreshness]_vars

(***************************************************************************)
(* The token bucket under direct TryAcquire calls and concurrent Acquire   *)
(* calls.  In the fair specification every goroutine keeps running, the    *)
(* clock keeps ticking, and a select case that is ready again and again is *)
(* taken in the end (the runtime picks among ready cases at random).       *)
(***************************************************************************)
AcquireWeights == {1, MaxWeight}

NextAcquire ==
    \/ BucketTick
    \/ \E a \in Acquirers, weight \in AcquireWeights : CallAcquire(a, weight)
    \/ \E a \in Acquirers : CancelContext(a)
    \/ \E a \in Acquirers : AcquireTry(a)
    \/ \E a \in Acquirers : AcquireSelectDone(a)
    \/ \E a \in Acquirers : AcquireSelectTimer(a)
    \/ \E a \in Acquirers : AcquireReturn(a)

NextBucket ==
    \/ NextAcquire
    \/ \E weight \in Weights : CallTryAcquire(weight)

SpecBucket == Init /\ [][NextBucket]_vars

SpecAcquireFair ==
    /\ Init /\ [][NextAcquire]_vars
    /\ WF_vars(BucketTick)
    /\ \A a \in Acquirers :
           /\ WF_vars(AcquireTry(a))
           /\ WF_vars(AcquireSelectTimer(a))
           /\ SF_vars(AcquireSelectDone(a))

(***************************************************************************)
(* The fill simulators on every order and book within the bounds, and on a *)
(* sequence of market orders.                                              *)
(***************************************************************************)
SimOrders ==
    [type : {OrderTypeMarket}, side : {"BUY", "SELL"}, size : 1..MaxSimSize,
     price : {0}]
        \cup [type : {OrderTypeLimit}, side : {"BUY", "SELL"},
              size : 1..MaxSimSize, price : Prices]

SimBooks ==
    {NilBookPtr} \cup [nil : {FALSE}, bids : SnapshotLevels(TRUE),
                       asks : SnapshotLevels(FALSE)]

NextFill ==
    \/ \E rate \in RejectRates : NewFillSimulators(rate)
    \/ /\ simRun.calls = 0
       /\ \E order \in SimOrders, book \in SimBooks :
              SimulateFillBoth(order, book)

SpecFill == Init /\ [][NextFill]_vars

RunOrders == {order \in SimOrders : order.type = OrderTypeMarket}
RunBooks == {book \in SimBooks : Len(book.bids) <= 1 /\ Len(book.asks) <= 1}

NextFillRuns ==
    \/ \E rate \in RejectRates : NewFillSimulators(rate)
    \/ \E order \in RunOrders, book \in RunBooks :
           SimulateFillBoth(order, book)

SpecFillRuns == Init /\ [][NextFillRuns]_vars

(***************************************************************************)
(* The reconciler beside the risk manager and its market data.             *)
(***************************************************************************)
NextRecon ==
    \/ \E key \in FedBooks : MarketDataUpdate(key)
    \/ \E venue \in Venues, total \in Totals : PortfolioUpdate(venue, total)
    \/ \E venue \in Venues, total \in Totals : ReconcileCompare(venue, total)
    \/ ReconcileOverwrite

SpecRecon == Init /\ [][NextRecon]_vars

(***************************************************************************)
(* The asynchronous writer from start to shutdown.  The processors and a   *)
(* blocked sender keep running while the process lives.                    *)
(***************************************************************************)
NextWriter ==
    \/ WriteRiskCheckpoint
    \/ WriteUnblocked
    \/ WriteOther
    \/ ProcessRiskCheckpoints
    \/ ProcessWrites
    \/ StopWriter
    \/ ExitAfterStop

SpecWriter == Init /\ [][NextWriter]_vars

SpecWriterFair ==
    /\ SpecWriter
    /\ WF_vars(ProcessRiskCheckpoints)
    /\ WF_vars(ProcessWrites)
    /\ WF_vars(WriteUnblocked)

(***************************************************************************)
(* The strategy modules under snapshots of the best levels, funding rates  *)
(* and the cost model's estimates.                                         *)
(***************************************************************************)
StratBids ==
    {<<>>, <<[price |-> 1, size |-> MaxLevelSize]>>,
     <<[price |-> MaxPrice, size |-> 1]>>}
StratAsks == {<<>>, <<[price |-> 1, size |-> MaxLevelSize]>>}
StratSnapshots == [exists : {TRUE}, bids : StratBids, asks : StratAsks]
CostEstimates == {10, 20000}
FundingRates == {-2, 4}

NextStrategy ==
    \/ \E symbol \in StratSymbols, snap \in StratSnapshots,
          costBps \in CostEstimates :
           OnOrderBookUpdate(symbol, snap, costBps)
    \/ \E rate \in FundingRates : OnFundingRateUpdate(rate)

SpecStrategy == Init /\ [][NextStrategy]_vars

(***************************************************************************)
(* Properties.                                                             *)
(***************************************************************************)

\* C1: an order whose status is terminal (FILLED, CANCELLED, REJECTED,
\* SUBMIT_FAILED) keeps that status in every step of SubmitOrder,
\* CancelOrder, CancelAllOrders and UpdateOrderFill.
C1_TerminalStatusIsFinal ==
    [][\A id \in OrderIds :
          (Exists(id) /\ IsTerminal(orders[id].status))
              => orders'[id].status = orders[id].status]_vars

\* C2: SubmitOrder has been called for a leg of a signal only if
\* ValidateSignal returned Approved for that signal; a goroutine is past the
\* gate only for an approved signal, so a rejected signal has no order.
C2_SubmitOnlyAfterApproval ==
    /\ \A sig \in EngineSignals : \A i \in 0..(Len(sig.legs) - 1) :
           idempotencyMap[<<sig.id, i>>] # NoId
               => cycle[sig.id].validation = Approved
    /\ \A p \in Procs :
           proc[p].sig # 0 => cycle[proc[p].sig].validation = Approved

C2_Witness ==
    \E a \in EngineSignals, b \in EngineSignals :
        /\ cycle[a.id].validation = Approved
        /\ idempotencyMap[<<a.id, 0>>] # NoId
        /\ cycle[b.id].validation \notin {"none", Approved}
        /\ idempotencyMap[<<b.id, 0>>] = NoId

\* C3: the venue's PlaceOrder is called at most once per non-empty
\* idempotency key, and a SubmitOrder that finds its key recorded returns
\* the recorded order, without error.
C3_IdempotentSubmit ==
    /\ \A k \in AllKeys \ {EmptyKey} : placeCalls[k] <= 1
    /\ \A p \in Procs :
           (proc[p].pc = "idle" /\ proc[p].ret.dup)
               => /\ proc[p].ret.order = idempotencyMap[DirectKey]
                  /\ proc[p].ret.order # NoId
                  /\ ~proc[p].ret.err

C3_Witness ==
    \E p \in Procs : proc[p].ret.dup /\ placeCalls[DirectKey] = 1

\* The state a signal's legs would lead to: each leg's size on its asset's
\* absolute position, the legs' notional on the venue, one open order per leg
\* on the global, venue and symbol counts.
RECURSIVE SumSizes(_, _, _)
SumSizes(legs, i, asset) ==
    IF i > Len(legs) THEN 0
    ELSE (IF extractAsset(legs[i].symbol) = asset THEN legs[i].size ELSE 0)
             + SumSizes(legs, i + 1, asset)

LegsOn(signal, symbol) ==
    Cardinality({i \in 1..Len(signal.legs) : signal.legs[i].symbol = symbol})

ProjectedWithinLimits(signal) ==
    /\ \A asset \in Assets :
           HasMaxPosition(asset)
               => Abs(positions[<<signal.venue, asset>>])
                      + SumSizes(signal.legs, 1, asset) <= MaxPosition(asset)
    /\ venueNotionals[signal.venue] + SumNotional(signal.legs, 1)
           <= MaxNotionalPerVenue
    /\ TotalDailyPnL > -DailyLossCapUSDT
    /\ openOrderCounts.global + Len(signal.legs) <= MaxOpenOrdersGlobal
    /\ openOrderCounts.perVenue[signal.venue] + Len(signal.legs)
           <= MaxOpenOrdersPerVenue
    /\ \A sym \in Symbols :
           LegsOn(signal, sym) > 0
               => openOrderCounts.perSymbol[sym] + LegsOn(signal, sym)
                      <= MaxOpenOrdersPerSymbol

\* C4: whenever ValidateSignal approves a signal, the state with the effect
\* of all the signal's legs added satisfies every limit.
C4_ApprovalKeepsLimits ==
    lastValidation.reason = Approved
        => ProjectedWithinLimits(SignalById(lastValidation.signal))

\* The checks in the order of the claim, each with its reason.
Checks(signal) ==
    << <<killSwitch.active, RejectKillSwitch>>,
       <<mode = RiskModeHalted, RejectHalted>>,
       <<DataBlockedFails(signal), RejectDataStale>>,
       <<PositionLimitFails(signal), RejectPositionLimit>>,
       <<NotionalLimitFails(signal), RejectNotionalLimit>>,
       <<DailyLossFails, RejectDailyLoss>>,
       <<GlobalOrdersFails, RejectGlobalOrders>>,
       <<VenueOrdersFails(signal), RejectVenueOrders>>,
       <<SymbolOrdersFails(signal), RejectSymbolOrders>> >>

FirstFailing(signal) ==
    LET c == Checks(signal)
        failing == {i \in 1..Len(c) : c[i][1]}
    IN  IF failing = {} THEN Approved
        ELSE c[CHOOSE i \in failing : \A j \in failing : i <= j][2]

\* C5: ValidateSignal returns the reason of the first check that fails, in
\* the order kill switch, halted, blocked market data, position, notional,
\* daily PnL, global, venue and symbol order counts, and approves exactly
\* when none fails.
C5_FirstFailingCheck ==
    /\ \A sig \in Signals : ValidateSignal(sig) = FirstFailing(sig)
    /\ lastValidation.reason # "none"
           => lastValidation.reason
                  = FirstFailing(SignalById(lastValidation.signal))

C5_Witness ==
    /\ lastValidation.signal = Sig4.id
    /\ lastValidation.reason = RejectPositionLimit
    /\ NotionalLimitFails(Sig4)
    /\ GlobalOrdersFails

\* What the file holds once an active kill switch is persisted.
FileActive == ksFile.content = "state" /\ ksFile.active

C7_ActiveAcrossRestarts ==
    /\ [][(restarts' # restarts /\ FileActive)
              => (killSwitch'.active /\ ksFile' = ksFile)]_vars
    /\ [][(FileActive /\ ~FileActive') => DeactivateKillSwitch]_vars
    /\ [](killSwitch.active
              => FileActive /\ ksFile.reason = killSwitch.reason)

C7_Witness ==
    /\ restarts >= 2
    /\ mode = RiskModeNormal
    /\ killSwitch = [active |-> TRUE, reason |-> "pnl"]

\* C8: every step that activates the kill switch while a callback is
\* registered starts the callback once.
C8_ActivationRunsCallback ==
    [][(/\ onKillSwitch
        /\ restarts' = restarts
        /\ ~killSwitch.active
        /\ killSwitch'.active)
           => pendingCallbacks' = pendingCallbacks + 1]_vars

C10_LegFailureAborts ==
    \A sig \in EngineSignals : \A i \in 0..(Len(sig.legs) - 1) :
        (/\ idempotencyMap[<<sig.id, i>>] # NoId
         /\ orders[idempotencyMap[<<sig.id, i>>]].status = OrderStatusSubmitFailed)
            => /\ \A j \in (i + 1)..(Len(sig.legs) - 1) :
                      idempotencyMap[<<sig.id, j>>] = NoId
               /\ cycle[sig.id].reports \in {<<>>, <<"aborted">>}

\* C11: when a leg's retry has returned to submitWithRetry, the venue's
\* PlaceOrder has been called once more for the leg for each retry made.
C11_RetryReinvokesVenue ==
    \A p \in Procs :
        (proc[p].pc = "swr_result" /\ proc[p].attempt >= 1)
            => placeCalls[proc[p].key] = proc[p].attempt + 1

\* C12: CancelOrder on an order whose status is terminal sends no cancel to
\* the venue: no goroutine goes on to the venue call for a terminal order.
C12_CancelTerminalIsNoOp ==
    [][\A p \in Procs :
          (proc[p].pc # "co_venue" /\ proc'[p].pc = "co_venue")
              => ~IsTerminal(orders[proc'[p].id].status)]_vars

\* C13: the filled size of every order is at most its requested size.
C13_FilledAtMostSize ==
    \A id \in OrderIds : Exists(id) => orders[id].filled <= orders[id].size

\* C14: every step that changes the status of an order makes exactly the
\* event of that change, with the status before the step as previous status
\* and the status after it as new status: the event is sent to the
\* subscribers in the same step, or handed to the frame that publishes it
\* once the lock is released.
C14_ChangePublishedWithActualStatuses ==
    [][\A id \in OrderIds :
          orders'[id].status # orders[id].status
              => LET change == [id |-> id,
                                prev |-> orders[id].status,
                                new |-> orders'[id].status,
                                transition |-> applied'[id]]
                 IN  \/ \E p \in Procs :
                            proc'[p].ev = change /\ proc[p].ev = NoEvent
                     \/ /\ orderStateSubs' = Deliver(orderStateSubs, change)
                        /\ \A p \in Procs : proc'[p].ev = proc[p].ev]_vars

\* C15: in the channel of every subscriber, the events of one order stand
\* in the order in which their transitions were applied to the order.
C15_EventsInTransitionOrder ==
    \A s \in 1..Len(orderStateSubs) :
        \A i, j \in 1..Len(orderStateSubs[s]) :
            (i < j /\ orderStateSubs[s][i].id = orderStateSubs[s][j].id)
                => orderStateSubs[s][i].transition
                       < orderStateSubs[s][j].transition

\* C16: PublishOrderBook can always be called and returns (it never waits
\* for a subscriber); its event is appended to the channel of every
\* subscriber that has room, and the channel of a subscriber that is full
\* is left as it is; a subscriber takes the events from the front of its
\* channel, so it receives those delivered to it in the order of their
\* publication.
C16_PublishDropsNewestNeverBlocks ==
    /\ [](\A snap \in BusSnapshots : ENABLED CallPublishOrderBook(snap))
    /\ [][\A snap \in BusSnapshots :
            CallPublishOrderBook(snap)
                => \A s \in 1..Len(orderBookSubs) :
                       IF Len(orderBookSubs[s]) < BufferSize
                       THEN orderBookSubs'[s] = Append(orderBookSubs[s], snap)
                       ELSE orderBookSubs'[s] = orderBookSubs[s]]_vars
    /\ [][\A s \in 1..Len(orderBookSubs) :
            ReceiveOrderBook(s)
                => orderBookSubs[s] = <<Head(orderBookSubs[s])>>
                                          \o orderBookSubs'[s]]_vars

\* Two subscribers whose latest events differ: the latest publication was
\* dropped for one of them and delivered to the other.
C16_Witness ==
    \E s, t \in 1..Len(orderBookSubs) :
        /\ Len(orderBookSubs[s]) = BufferSize
        /\ orderBookSubs[t] # <<>>
        /\ orderBookSubs[s][BufferSize]
               # orderBookSubs[t][Len(orderBookSubs[t])]

\* C17: a publication that finds the channel of a subscriber full, and so
\* drops its event for that subscriber, leaves a count of the drop: it
\* changes something besides the channels of the subscribers.
C17_DropIsCounted ==
    [][\A snap \in BusSnapshots :
          (/\ CallPublishOrderBook(snap)
           /\ \E s \in 1..Len(orderBookSubs) :
                  Len(orderBookSubs[s]) = BufferSize)
              => <<omVars, riskVars, osVars, books, held>>'
                     # <<omVars, riskVars, osVars, books, held>>]_vars

\* C18 helper: the levels of one side at rest.
WellFormedSide(levels, descending) ==
    /\ Sorted(levels, descending)
    /\ \A i \in 1..Len(levels) : levels[i].size # 0

SequenceGap(delta) ==
    /\ books[delta.key].exists
    /\ delta.sequence # books[delta.key].sequence + 1

\* C19: ApplyDelta with a delta whose sequence number does not directly
\* follow that of the stored book leaves the levels and the sequence number
\* of the book as they were and leaves the feed of the book blocked.
C19_GapBlocksFeed ==
    [][\A delta \in DeltaInputs(AgingBook) :
          (SequenceGap(delta) /\ ApplyDelta(delta))
              => /\ books'[delta.key] = books[delta.key]
                 /\ mdLastUpdate'[delta.key] # "recent"]_vars

\* C20: the levels read through a snapshot that GetOrderBook returned, or
\* through a book event waiting in a channel, are the same after every step
\* as before it.
C20_SnapshotsKeepTheirLevels ==
    [][/\ (held # <<>> /\ held' # <<>>)
          => /\ BidsOf(held[1])' = BidsOf(held[1])
             /\ AsksOf(held[1])' = AsksOf(held[1])
       /\ \A s \in 1..Len(orderBookSubs) :
            \A i \in 1..Len(orderBookSubs[s]) :
                Len(orderBookSubs'[s]) >= Len(orderBookSubs[s])
                    => /\ BidsOf(orderBookSubs[s][i])'
                              = BidsOf(orderBookSubs[s][i])
                       /\ AsksOf(orderBookSubs[s][i])'
                              = AsksOf(orderBookSubs[s][i])]_vars

\* C21: IsDataBlocked holds exactly when no update was recorded for the key
\* or its age is at least the block threshold, and IsDataFresh holds exactly
\* when an update was recorded and its age is below the warn threshold.
C21_BlockedFromThreshold ==
    \A key \in BookKeys :
        /\ IsDataBlocked(key[1], key[2])
               <=> (mdAge[key] = NoAge \/ mdAge[key] >= BlockDuration)
        /\ IsDataFresh(key[1], key[2])
               <=> (mdAge[key] # NoAge /\ mdAge[key] < StaleDuration)

\* C22 helper: the token count after the refill a call begins with.
Refilled ==
    LET added == bucket.tokens + bucket.elapsed * RefillPerTick
    IN  IF added < Capacity THEN added ELSE Capacity

\* C22: the token count stays within 0..capacity, and TryAcquire(w) answers
\* true exactly when the refilled count is at least w, then leaving the
\* refilled count less w; answering false it leaves the refilled count.
C22_TokensBoundedTryAcquireExact ==
    /\ [](bucket.tokens >= 0 /\ bucket.tokens <= Capacity)
    /\ [][\A weight \in Weights :
             CallTryAcquire(weight)
                 => /\ tried'.ok <=> Refilled >= weight
                    /\ bucket'.tokens =
                           IF tried'.ok THEN Refilled - weight ELSE Refilled]_vars

\* A TryAcquire that found the refill running over the capacity, and took
\* its tokens from a full bucket.
C22_Witness ==
    /\ tried.calls = 1
    /\ tried.ok
    /\ tried.weight = Capacity
    /\ bucket.tokens = 0

\* C23: Acquire returns nil only on taking its weight from the refilled
\* bucket itself, and a call whose context is cancelled returns, with the
\* context's error if it cannot have its tokens, whatever its weight.
C23_AcquireTakesOrReturnsOnCancel ==
    /\ [][\A a \in Acquirers :
             acquirers'[a].result = "nil" /\ acquirers[a].result # "nil"
                 => /\ Refilled >= acquirers[a].weight
                    /\ bucket'.tokens = Refilled - acquirers[a].weight]_vars
    /\ [](\A a \in Acquirers :
             acquirers[a].result = "ctx_err" => acquirers[a].cancelled)
    /\ \A a \in Acquirers :
           (acquirers[a].pc \in {"try", "select"} /\ acquirers[a].cancelled)
               ~> acquirers[a].pc = "done"

\* A call for more than the capacity has returned the context's error.
C23_Witness ==
    \E a \in Acquirers :
        /\ acquirers[a].pc = "done"
        /\ acquirers[a].result = "ctx_err"
        /\ acquirers[a].weight > Capacity

\* C24 helpers: the opposite side of the latest order, whether the order
\* walks it, and what the walk consumes of level i.
OppositeSide ==
    IF simRun.order.side = "BUY" THEN simRun.book.asks ELSE simRun.book.bids

RECURSIVE SizeBefore(_, _)
SizeBefore(levels, i) ==
    IF i <= 1 THEN 0 ELSE levels[i - 1].size + SizeBefore(levels, i - 1)

Consumed(levels, i, size) ==
    LET left == size - SizeBefore(levels, i)
    IN  IF left <= 0 THEN 0
        ELSE IF left < levels[i].size THEN left ELSE levels[i].size

RECURSIVE ConsumedSize(_, _, _)
ConsumedSize(levels, i, size) ==
    IF i > Len(levels) THEN 0
    ELSE Consumed(levels, i, size) + ConsumedSize(levels, i + 1, size)

RECURSIVE ConsumedCost(_, _, _)
ConsumedCost(levels, i, size) ==
    IF i > Len(levels) THEN 0
    ELSE Consumed(levels, i, size) * levels[i].price
             + ConsumedCost(levels, i + 1, size)

WalksOpposite ==
    /\ simRun.calls > 0
    /\ ~simRun.book.nil
    /\ Len(OppositeSide) > 0
    /\ \/ simRun.order.type = OrderTypeMarket
       \/ simRun.order.side = "BUY"
              /\ simRun.order.price >= OppositeSide[1].price
       \/ simRun.order.side = "SELL"
              /\ simRun.order.price <= OppositeSide[1].price

\* C24: a market order, or a limit order crossing the opposite best price,
\* that is not rejected by injection is filled by walking the opposite
\* side: the fill size is the smaller of the requested and the available
\* size, the fill price the size-weighted average of the consumed prices
\* (to the precision of the division), the status Filled when all of the
\* requested size is filled and PartialFill otherwise.
C24_WalkFillsMinAtAveragePrice ==
    WalksOpposite =>
        \A i \in 1..2 :
            LET fill == simRun.fills[i]
                requested == simRun.order.size
                available == SizeBefore(OppositeSide, Len(OppositeSide) + 1)
                cost == ConsumedCost(OppositeSide, 1, requested)
            IN  \/ simRun.sims[i].rejectRatePct > 0
                       /\ fill.status = OrderStatusRejected
                \/ /\ fill.size = IF requested < available THEN requested
                                   ELSE available
                   /\ fill.size = ConsumedSize(OppositeSide, 1, requested)
                   /\ 2 * Abs(fill.price * fill.size - cost * PriceScale)
                          <= fill.size
                   /\ fill.status = IF fill.size = requested
                                    THEN OrderStatusFilled
                                    ELSE OrderStatusPartialFill

\* A limit buy crossing the best ask took all of two ask levels and is
\* partially filled.
C24_Witness ==
    /\ WalksOpposite
    /\ simRun.order.type = OrderTypeLimit
    /\ simRun.order.side = "BUY"
    /\ Len(simRun.book.asks) = 2
    /\ simRun.fills[1].status = OrderStatusPartialFill
    /\ simRun.fills[1].size = 2

\* C25: two simulators built with the same arguments and given the same
\* orders and books return the same fills, rejections by injection
\* included.
C25_SameArgumentsSameFills ==
    simRun.calls > 0 => simRun.fills[1] = simRun.fills[2]

\* C26: from the reconciler's detecting a mismatch above the threshold on
\* a venue until the internal state is put right, ValidateSignal rejects
\* every signal for that venue.
C26_MismatchBlocksVenue ==
    \A venue \in Venues :
        recon.detected[venue]
            => \A signal \in Signals :
                   signal.venue = venue => ValidateSignal(signal) # Approved

\* C27: every risk checkpoint handed to the writer is handled in the end
\* and never dropped, and a write of another kind is dropped only when the
\* best-effort channel is full.
C27_CheckpointsHandledNeverDropped ==
    /\ \A r \in Requests :
           writer.kind[r] = WriteTypeRiskCheckpoint ~> r \in writer.handled
    /\ [](\A r \in writer.dropped : writer.kind[r] # WriteTypeRiskCheckpoint)
    /\ [][\A r \in Requests :
             r \in writer.dropped' /\ r \notin writer.dropped
                 => Len(writer.writeCh) = WriteChCap]_vars

\* C28: a system that has started never holds a kill-switch file that is
\* there but cannot be parsed while it treats the kill switch as inactive;
\* startup aborts on such a file.
C28_UnparseableFileAbortsStartup ==
    ksFile = FileCorrupt => killSwitch.active

\* C29: TotalDailyPnL is the sum of the realized amounts added since the
\* latest UTC midnight plus the unrealized value set since then; once
\* midnight has passed and nothing was added or set, it is zero.
C29_TotalCountsTodayOnly ==
    pnl.newDay => TotalDailyPnL = 0

C31_CancelAllLeavesNoOpenOrder ==
    [][proc[2].pc = "ca_loop" /\ proc'[2].pc = "idle"
          => \A id \in OrderIds :
                 orders'[id] # NoOrder => IsTerminal(orders'[id].status)]_vars

\* C32: every cycle started for an approved signal ends and publishes
\* exactly one execution report, and no leg is submitted once the deadline
\* of the cycle has passed.
C32_CycleReportsOnceWithinDeadline ==
    /\ [][\A p \in Procs :
              proc[p].pc = "leg" /\ proc'[p].pc = "so_created"
                  => ~proc[p].ctxDone]_vars
    /\ \A id \in SigIds : [](Len(cycle[id].reports) <= 1)
    /\ \A id \in SigIds :
           cycle[id].validation = Approved ~> Len(cycle[id].reports) = 1

\* C33: once the kill switch is active the execution engine starts no venue
\* PlaceOrder call, not for the remaining legs of a cycle approved before
\* the activation either.
C33_NoPlaceOrderWhileKillSwitchActive ==
    [][\A p \in Procs :
           proc[p].pc = "so_place" /\ proc'[p].pc = "so_result"
               => ~killSwitch.active]_vars

\* The two signals taken as one: the legs of both on their venue.
Combined(s1, s2) == [s1 EXCEPT !.legs = s1.legs \o s2.legs]

\* Two cycles run at the same time, both approved on the present RiskState.
ApprovedTogether(s1, s2) ==
    /\ s1.id < s2.id
    /\ s1.venue = s2.venue
    /\ cycle[s1.id].validation = Approved
    /\ cycle[s2.id].validation = Approved
    /\ \E p1, p2 \in Procs :
           p1 # p2 /\ proc[p1].sig = s1.id /\ proc[p2].sig = s2.id

\* C34: two signals executed concurrently are never both approved against
\* the same RiskState when their projected effects together exceed a
\* position, notional or open-order limit.
C34_ConcurrentApprovalsKeepLimits ==
    \A s1, s2 \in EngineSignals :
        ApprovedTogether(s1, s2) => ProjectedWithinLimits(Combined(s1, s2))

\* C35: in every reachable state of the risk manager, the state right after
\* a restart on a persisted active kill switch included, the kill switch
\* is active if and only if the risk mode is HALTED.
C35_ActiveIffHalted == killSwitch.active <=> mode = RiskModeHalted

\* The goroutine publishes the report "completed" of its cycle.
PublishesCompleted(p) ==
    /\ proc[p].sig # 0
    /\ cycle'[proc[p].sig].reports =
           Append(cycle[proc[p].sig].reports, "completed")

\* C36: a report with status completed is published only if the venue
\* accepted the order of every leg: none of them is REJECTED or
\* SUBMIT_FAILED when the report is published.
C36_CompletedMeansEveryLegAccepted ==
    [][\A p \in Procs :
           PublishesCompleted(p)
               => \A k \in 1..Len(proc[p].placed) :
                      orders[proc[p].placed[k]].status
                          \notin {OrderStatusRejected, OrderStatusSubmitFailed}]_vars

\* The orders that were submitted and are not yet terminal.
OpenOrders ==
    {id \in OrderIds :
        /\ orders[id] # NoOrder
        /\ orders[id].status # OrderStatusPendingNew
        /\ ~IsTerminal(orders[id].status)}

\* Every state change made so far was published and handed to the risk
\* manager.
AllChangesProcessed ==
    /\ Len(orderStateSubs) = 1
    /\ orderStateSubs[1] = <<>>
    /\ \A p \in Procs : proc[p].ev = NoEvent

\* C37: once the risk manager has processed, in the order of publication,
\* every state change of the orders, its global, per-venue and per-symbol
\* open-order counts are the number of orders submitted and not terminal.
C37_CountsAreTheOpenOrders ==
    AllChangesProcessed
        => /\ openOrderCounts.global = Cardinality(OpenOrders)
           /\ openOrderCounts.perVenue[OrdersVenue] = Cardinality(OpenOrders)
           /\ openOrderCounts.perSymbol[OrdersSymbol] = Cardinality(OpenOrders)

\* C38: for every order of the order manager, FILLED implies a filled size
\* of at least the requested size and PARTIAL_FILL a filled size above zero
\* and below the requested size, also when the status was adopted from the
\* acknowledgement of the venue.
C38_FillStatusMatchesFilledSize ==
    \A id \in OrderIds :
        /\ orders[id].status = OrderStatusFilled
               => orders[id].filled >= orders[id].size
        /\ orders[id].status = OrderStatusPartialFill
               => 0 < orders[id].filled /\ orders[id].filled < orders[id].size

\* SubmitOrder returned a nil order together with a nil error.
ReturnedNilNil(p) ==
    proc[p].ret.dup /\ ~proc[p].ret.err /\ proc[p].ret.order = NoId

\* C39: every idempotency key the order manager recorded maps to an order
\* still in its order table, so that SubmitOrder never returns a nil order
\* with a nil error, also after CleanupStaleOrders removed terminal orders.
C39_KeysMapToStoredOrders ==
    /\ \A key \in AllKeys :
           idempotencyMap[key] # NoId => Exists(idempotencyMap[key])
    /\ \A p \in Procs : ~ReturnedNilNil(p)

\* C40: a Publish that follows EventBus.Close (the two exclude each other
\* by the bus's lock) ends without fault, it never sends on a closed
\* channel, and a second Close is harmless.
C40_PublishAndCloseNeverFault == reportBus.fault = NoFault

====
